---------------------------- MODULE Spec2Model ----------------------------
(***************************************************************************)
(* Koyo V2 pool fetching: one fetch cycle of KoyoPoolFetcher::fetch.       *)
(* The caller computes the candidate pool ids, removes the deny-listed     *)
(* ones, calls PoolInfoFetcher::fetch_pool for every remaining pool (which *)
(* queues the block-pinned reads into one Web3CallBatch), executes the     *)
(* batch, awaits the per-pool futures and splits the Active pools by kind. *)
(***************************************************************************)
EXTENDS Integers, Sequences, FiniteSets, Bags, TLC

(***************************************************************************)
(* Bounds of the model.                                                    *)
(***************************************************************************)
MaxBlock == 1

(***************************************************************************)
(* Values.  Results and enums are records with a "tag" field.              *)
(***************************************************************************)
Error(why) == [tag |-> "Err", why |-> why]
Ok(v) == [tag |-> "Ok", val |-> v]
NoneOpt == [tag |-> "None"]
SomeOpt(v) == [tag |-> "Some", val |-> v]
NotYet == [tag |-> "NotYet"]

Latest == [tag |-> "Latest"]
Number(n) == [tag |-> "Number", n |-> n]
Blocks == {Latest} \cup {Number(n) : n \in 1..MaxBlock}

Min(a, b) == IF a <= b THEN a ELSE b
Reverse(s) == [i \in 1..Len(s) |-> s[Len(s) + 1 - i]]
Range(s) == {s[i] : i \in 1..Len(s)}

\* The token addresses; a TokenPair is an ordered pair of distinct tokens.
Tokens == {1, 2, 3}
AllPairs == {<<a, b>> : a \in Tokens, b \in Tokens} \ {<<a, a>> : a \in Tokens}
TokenPairs == {pr \in AllPairs : pr[1] < pr[2]}

\* A pool id is 32 bytes whose first 20 bytes are the pool address: the pair
\* <<address, rest>>.
P1 == <<11, 1>>
P2 == <<12, 2>>
PoolIdSet == {P1, P2}
pool_address_from_id(pool_id) == pool_id[1]

FactoryKinds == {"Weighted", "Oracle", "Stable"}

\* common::PoolInfo.
CommonInfo(id, tokens, exps, created) ==
    [id |-> id, address |-> pool_address_from_id(id), tokens |-> tokens,
     scaling_exponents |-> exps, block_created |-> created]

\* The specialized pool infos of the two indexed pools: P1 (tokens 1, 2) is
\* a weighted or oracle-weighted pool with weights 40/60 (in percent of the
\* fixed-point one), P2 (tokens 2, 3) a stable pool without extra data.
InfoP1(kind) ==
    [factory |-> kind, common |-> CommonInfo(P1, <<1, 2>>, <<0, 12>>, 1),
     weights |-> <<40, 60>>]
InfoP2 ==
    [factory |-> "Stable", common |-> CommonInfo(P2, <<2, 3>>, <<12, 0>>, 1),
     weights |-> <<>>]
Registries(kinds) ==
    {[id \in PoolIdSet |-> IF id = P1 THEN InfoP1(k) ELSE InfoP2] : k \in kinds}

VARIABLES
    registry,       \* pool id -> specialized PoolInfo (the registries' index)
    pool_id_deny_list, \* KoyoPoolFetcher::pool_id_deny_list
    phase,          \* position of the fetch call
    token_pairs,    \* argument of fetch
    at_block,       \* argument of fetch, as the BlockId handed to fetch_pool
    pool_ids,       \* the ids handed to pools_by_id
    batch,          \* Web3CallBatch: the bag of queued calls
    results,        \* executed batch: queued call -> its result
    pc,             \* pool id -> position of the future fetch_pool returned
    chan,           \* pool id -> content of the oneshot channel
    common_res,     \* pool id -> output of the common-state future
    status,         \* pool id -> output of the fetch_pool future
    fetched,        \* the FetchedKoyoPools returned by fetch
    calc,           \* the last call of a pure conversion: argument and result
    built,          \* the last pool info built: its inputs and its result
    index,          \* the pool infos of a registry made from discovery
    seen,           \* the results of the batch of the previous fetch cycle
    first,          \* the outcome of the previous fetch cycle
    sync,           \* a registry that follows the creation events
    cache,          \* the Cache around the aggregate: one fetch with retries
    maint,          \* the maintenance driver and the Cache's background update
    idx,            \* a registry's index, a sync cycle on it and its readers
    agg,            \* the Aggregate made at bootstrap and its last call
    store,          \* the Cache's entries and the operations in flight
    second,         \* a second fetch, running beside the first
    http,           \* the solver-competition endpoint: configuration, store, reply
    pag,            \* the PoolAggregator of the Uniswap-like sources and its call
    subsidy         \* the KYO fee subsidy: its cache, the clock, the last call

\* The variables of a fetch cycle and those of the other components.
fetch_vars == <<registry, pool_id_deny_list, phase, token_pairs, at_block,
                pool_ids, batch, results, pc, chan, common_res, status, fetched>>
info_vars == <<calc, built, index>>
after_info == <<seen, first, sync, cache, maint>>
later == <<idx, agg, store, second, http>>
outer == <<pag, subsidy>>
others == <<info_vars, after_info, later, outer>>
vars == <<fetch_vars, others>>

(***************************************************************************)
(* The chain.  A read is a call [to, arg, method, block]; what the chain   *)
(* answers is chosen when the batch is executed.                           *)
(***************************************************************************)
VaultAddress == 99
Call(to, arg, method, block) ==
    [to |-> to, arg |-> arg, method |-> method, block |-> block]
CommonMethods == {"get_paused_state", "get_swap_fee_percentage", "get_pool_tokens"}

PausedOutcomes == {Ok(TRUE), Ok(FALSE), Error("rpc")}
SwapFeeOutcomes == {Ok(3), Error("rpc")}
\* A token list with other content than `tokens`: its last token replaced.
OtherTokens(tokens) ==
    [tokens EXCEPT ![Len(tokens)] = CHOOSE t \in Tokens : t \notin Range(tokens)]
\* Vault.getPoolTokens answers (tokens, balances, lastChangeBlock).
PoolTokensOutcomes(tokens) ==
    {Ok([tokens |-> tokens, balances |-> <<5, 7>>]),
     Ok([tokens |-> tokens, balances |-> <<5>>]),
     Ok([tokens |-> Reverse(tokens), balances |-> <<7, 5>>]),
     Ok([tokens |-> OtherTokens(tokens), balances |-> <<5, 7>>]),
     Error("rpc")}
\* The read a factory's fetch_pool_state makes on the pool contract, if any.
\* "Other" stands for any further implementation of FactoryIndexing, one
\* whose fetch_pool_state may resolve to None: it reads whether swaps are
\* enabled and gives None when they are not.
OwnMethod(kind) ==
    CASE kind = "Stable" -> "get_amplification_parameter"
      [] kind = "Other" -> "get_swap_enabled"
      [] OTHER -> "none"
\* StablePool.getAmplificationParameter answers (value, isUpdating, precision).
OwnOutcomes(kind) ==
    CASE kind = "Stable" -> {Ok([factor |-> 200, precision |-> 1000]),
                             Ok([factor |-> 200, precision |-> 0]), Error("rpc")}
      [] kind = "Other" -> {Ok(TRUE), Ok(FALSE), Error("rpc")}
      [] OTHER -> {Error("revert")}

\* What the chain holds for one pool at the block of the batch.
ChainStates(info) ==
    [paused : PausedOutcomes, swap_fee : SwapFeeOutcomes,
     tokens : PoolTokensOutcomes(info.common.tokens),
     own_method : {OwnMethod(info.factory)}, own : OwnOutcomes(info.factory)]
Unread == [paused |-> Error("unread"), swap_fee |-> Error("unread"),
           tokens |-> Error("unread"), own_method |-> "none",
           own |-> Error("unread")]
\* The chains that differ on the pools of `queried` only.
Chains(reg, queried) ==
    LET of(id) == IF id \in queried THEN ChainStates(reg[id]) ELSE {Unread}
    IN {[id \in PoolIdSet |-> IF id = P1 THEN a ELSE b] : a \in of(P1), b \in of(P2)}

\* The answer of chain w to one call.
ChainRead(w, c) ==
    IF c.method = "get_pool_tokens"
    THEN IF c.to = VaultAddress /\ c.arg \in PoolIdSet
         THEN w[c.arg].tokens ELSE Error("revert")
    ELSE LET ids == {id \in PoolIdSet : pool_address_from_id(id) = c.to}
         IN IF ids = {} THEN Error("revert")
            ELSE LET s == w[CHOOSE id \in ids : TRUE]
                 IN CASE c.method = "get_paused_state" -> s.paused
                      [] c.method = "get_swap_fee_percentage" -> s.swap_fee
                      [] c.method = s.own_method -> s.own
                      [] OTHER -> Error("revert")

SeqToBag(s) == [c \in Range(s) |-> Cardinality({i \in 1..Len(s) : s[i] = c})]

(***************************************************************************)
(* PoolInfoFetcher::fetch_common_pool_state                                *)
(***************************************************************************)
\* Mutant: the pool tokens are read for the id of the first pool.
CommonReads_TokensOfFirstPool(pool, block) ==
    <<Call(pool.address, <<>>, "get_paused_state", block),
      Call(pool.address, <<>>, "get_swap_fee_percentage", block),
      Call(VaultAddress, P1, "get_pool_tokens", block)>>

\* The reads it queues, in the order of the code.
CommonReads(pool, block) ==
    <<Call(pool.address, <<>>, "get_paused_state", block),
      Call(pool.address, <<>>, "get_swap_fee_percentage", block),
      Call(VaultAddress, pool.id, "get_pool_tokens", block)>>

\* Mutant: the token lists are compared as sets.
TokensMatch_AsSets(recorded, token_addresses) ==
    Range(recorded) = Range(token_addresses)

\* ensure!(pool.tokens == token_addresses)
TokensMatch(recorded, token_addresses) == recorded = token_addresses

\* izip!(tokens, balances, scaling_exponents) collected into a BTreeMap: the
\* zip stops at the shortest input, a later entry of a key replaces an earlier.
ZipTokenStates(tokens, balances, exps) ==
    LET n == Min(Len(tokens), Min(Len(balances), Len(exps)))
        last(a) == CHOOSE i \in 1..n :
                       tokens[i] = a /\ \A j \in 1..n : tokens[j] = a => j <= i
    IN [a \in {tokens[i] : i \in 1..n} |->
           [balance |-> balances[last(a)], scaling_exponent |-> exps[last(a)]]]

\* Mutant: a paused pool is reported before the other two reads are looked
\* at.
CommonPoolState_PausedFirst(pool, paused, swap_fee, balances) ==
    IF paused.tag = "Err" THEN paused
    ELSE IF paused.val
    THEN Ok([paused |-> TRUE, swap_fee |-> 0, tokens |-> <<>>])
    ELSE IF swap_fee.tag = "Err" THEN swap_fee
    ELSE IF balances.tag = "Err" THEN balances
    ELSE IF ~TokensMatch(pool.tokens, balances.val.tokens)
         THEN Error("pool token mismatch")
    ELSE Ok([paused |-> paused.val, swap_fee |-> swap_fee.val,
             tokens |-> ZipTokenStates(pool.tokens, balances.val.balances,
                                       pool.scaling_exponents)])

\* The async block: the output of the common-state future from the results
\* of its three reads.
CommonPoolState(pool, paused, swap_fee, balances) ==
    IF paused.tag = "Err" THEN paused
    ELSE IF swap_fee.tag = "Err" THEN swap_fee
    ELSE IF balances.tag = "Err" THEN balances
    ELSE IF ~TokensMatch(pool.tokens, balances.val.tokens)
         THEN Error("pool token mismatch")
    ELSE Ok([paused |-> paused.val, swap_fee |-> swap_fee.val,
             tokens |-> ZipTokenStates(pool.tokens, balances.val.balances,
                                       pool.scaling_exponents)])

(***************************************************************************)
(* share_common_pool_state: a oneshot channel from the result future to    *)
(* the shared future.                                                      *)
(***************************************************************************)
Empty == [tag |-> "Empty"]
\* inspect: the Ok value is cloned, the error replaced by ().
Published(pool_result) ==
    IF pool_result.tag = "Ok" THEN pool_result ELSE Error("()")
\* The receiver of the channel was dropped.
Closed == [tag |-> "Closed"]

\* Mutant: a send that fails makes the result an error.
Inspect_SendFailureIsError(c, pool_result) ==
    IF c.tag = "Closed"
    THEN [chan |-> c, out |-> Error("receiver dropped")]
    ELSE [chan |-> Published(pool_result), out |-> pool_result]

\* fut.inspect(..): let _ = pool_sender.send(pool_result); the send to a
\* dropped receiver fails and is ignored, the result goes on unchanged.
Inspect(c, pool_result) ==
    [chan |-> IF c.tag = "Closed" THEN c ELSE Published(pool_result),
     out |-> pool_result]

\* The shared future: try_recv().expect(..).expect(..)
SharedRecv(c) ==
    IF c.tag = "Empty"
    THEN [tag |-> "Panic", why |-> "result future is still pending or has been dropped"]
    ELSE IF c.tag = "Err"
    THEN [tag |-> "Panic", why |-> "result future resolved to an error"]
    ELSE c

(***************************************************************************)
(* FactoryIndexing::fetch_pool_state of the three factories                *)
(***************************************************************************)
\* Mutant: the weighted factories read the pool tokens themselves.
KindReads_WeightedReadsTokens(info, block) ==
    IF OwnMethod(info.factory) = "none"
    THEN <<Call(VaultAddress, info.common.id, "get_pool_tokens", block)>>
    ELSE <<Call(info.common.address, <<>>, OwnMethod(info.factory), block)>>
\* Mutant: the factory's read is not bound to the block.
KindReads_Unpinned(info, block) ==
    IF OwnMethod(info.factory) = "none" THEN <<>>
    ELSE <<Call(info.common.address, <<>>, OwnMethod(info.factory), Latest)>>

\* The reads the factory queues when fetch_pool_state is called.
KindReads(info, block) ==
    IF OwnMethod(info.factory) = "none" THEN <<>>
    ELSE <<Call(info.common.address, <<>>, OwnMethod(info.factory), block)>>

\* The keys of a BTreeMap in iteration order.
RECURSIVE SortedKeys(_)
SortedKeys(S) ==
    IF S = {} THEN <<>>
    ELSE LET m == CHOOSE x \in S : \A y \in S : x <= y
         IN <<m>> \o SortedKeys(S \ {m})

\* weighted.rs: common.tokens.into_iter().zip(&pool_info.weights)
WeightedPoolState(info, common) ==
    LET keys == SortedKeys(DOMAIN common.tokens)
        n == Min(Len(keys), Len(info.weights))
        at(a) == CHOOSE k \in 1..n : keys[k] = a
    IN Ok(SomeOpt([tokens |-> [a \in {keys[k] : k \in 1..n} |->
                                  [common |-> common.tokens[a],
                                   weight |-> info.weights[at(a)]]],
                   swap_fee |-> common.swap_fee]))

\* AmplificationParameter::new(factor, precision)?
AmplificationParameterNew(factor, precision) ==
    IF precision = 0 THEN Error("zero precision not allowed")
    ELSE Ok([factor |-> factor, precision |-> precision])

\* Mutant: a failed amplification read gives None.
StablePoolState_ReadErrorIsNone(common, amp) ==
    IF amp.tag = "Err" THEN Ok(NoneOpt)
    ELSE LET a == AmplificationParameterNew(amp.val.factor, amp.val.precision)
         IN IF a.tag = "Err" THEN a
            ELSE Ok(SomeOpt([tokens |-> common.tokens,
                             swap_fee |-> common.swap_fee,
                             amplification_parameter |-> a.val]))

\* stable.rs: the amplification read and its conversion are propagated with ?
StablePoolState(common, amp) ==
    IF amp.tag = "Err" THEN amp
    ELSE LET a == AmplificationParameterNew(amp.val.factor, amp.val.precision)
         IN IF a.tag = "Err" THEN a
            ELSE Ok(SomeOpt([tokens |-> common.tokens,
                             swap_fee |-> common.swap_fee,
                             amplification_parameter |-> a.val]))

\* Another factory: None when swaps are disabled, else a weighted state.
OtherPoolState(info, common, enabled) ==
    IF enabled.tag = "Err" THEN enabled
    ELSE IF ~enabled.val THEN Ok(NoneOpt)
    ELSE WeightedPoolState(info, common)

\* A factory that does not look at the common state: it drops the shared
\* future and its state is ready.
MockPoolState(info) ==
    Ok(SomeOpt([tokens |-> <<>>, swap_fee |-> 0]))

\* The output of the future fetch_pool_state returned, from the common state
\* the shared future gave and the result of the factory's own read; the
\* oracle-weighted factory forwards to the weighted one.
PoolStateOf(info, common, own) ==
    CASE info.factory = "Stable" -> StablePoolState(common, own)
      [] info.factory = "Weighted" -> WeightedPoolState(info, common)
      [] info.factory = "Oracle" -> WeightedPoolState(info, common)
      [] info.factory = "Mock" -> MockPoolState(info)
      [] OTHER -> OtherPoolState(info, common, own)

\* pool_state.into(): both weighted factories give PoolKind::Weighted.
PoolKindOf(info, state) ==
    [tag |-> IF info.factory = "Stable" THEN "Stable" ELSE "Weighted",
     state |-> state]

(***************************************************************************)
(* PoolInfoFetcher::fetch_pool                                             *)
(***************************************************************************)
\* Mutant: the factory's read is not queued by the call (it is left to the
\* future).
FetchPoolReads_CommonOnly(info, block) == CommonReads(info.common, block)

\* All the reads one fetch_pool call queues.
FetchPoolReads(info, block) ==
    CommonReads(info.common, block) \o KindReads(info, block)

\* Mutant: the paused check is missing.
CommonGate_NoPausedCheck(res) == IF res.tag = "Err" THEN "err" ELSE "kind"
\* Mutant: an error of the common state is not propagated.
CommonGate_NoErrorCheck(res) ==
    IF res.tag = "Err" THEN "kind"
    ELSE IF res.val.paused THEN "paused"
    ELSE "kind"

\* After common_pool_state.await: "err" for the ? on an error, "paused" for
\* the early return, "kind" to go on to pool_state.await.
CommonGate(res) ==
    IF res.tag = "Err" THEN "err"
    ELSE IF res.val.paused THEN "paused"
    ELSE "kind"

Paused == [tag |-> "Paused"]
Disabled == [tag |-> "Disabled"]
Active(pool) == [tag |-> "Active", pool |-> pool]

\* Mutant: a None state is reported as an error.
FinalStatus_NoneIsError(info, pool_state) ==
    IF pool_state.tag = "Err" THEN pool_state
    ELSE IF pool_state.val.tag = "None" THEN Error("disabled")
    ELSE Ok(Active([id |-> info.common.id,
                    kind |-> PoolKindOf(info, pool_state.val.val)]))

\* match pool_state.await? { Some(state) => Active, None => Disabled }
FinalStatus(info, pool_state) ==
    IF pool_state.tag = "Err" THEN pool_state
    ELSE IF pool_state.val.tag = "None" THEN Ok(Disabled)
    ELSE Ok(Active([id |-> info.common.id,
                    kind |-> PoolKindOf(info, pool_state.val.val)]))

(***************************************************************************)
(* KoyoPoolFetcher::fetch, through fetch_pools and the registries.         *)
(***************************************************************************)
\* The registries' index lookup: the pools holding both tokens of a pair.
PoolIdsForTokenPairs(reg, pairs) ==
    {id \in DOMAIN reg : \E pr \in pairs :
        {pr[1], pr[2]} \subseteq Range(reg[id].common.tokens)}

\* Mutant: the deny list is not applied.
RemoveDenied_Nothing(ids, deny_list) == ids

\* Mutant: when an id is denied, all ids are removed.
RemoveDenied_AllOrNone(ids, deny_list) ==
    IF ids \cap deny_list = {} THEN ids ELSE {}

\* fetch_pools: for id in &self.pool_id_deny_list { pool_ids.remove(id); }
RemoveDenied(ids, deny_list) == ids \ deny_list

\* The result of a queued call, once the batch was executed.
Pending == [tag |-> "Pending"]
ReadOf(c) == IF c \in DOMAIN results THEN results[c] ELSE Pending
Resolved(calls) == \A i \in 1..Len(calls) : ReadOf(calls[i]).tag # "Pending"

\* The pools pools_by_id returns come in the order of their ids.
RECURSIVE SortedKeysOfIds(_)
SortedKeysOfIds(S) ==
    IF S = {} THEN <<>>
    ELSE LET m == CHOOSE x \in S : \A y \in S : x[1] <= y[1]
         IN <<m>> \o SortedKeysOfIds(S \ {m})

\* pools_by_id keeps the pools whose status is Active.
RECURSIVE ActivePools(_, _)
ActivePools(ids, st) ==
    IF ids = <<>> THEN <<>>
    ELSE LET s == st[Head(ids)]
         IN (IF s.tag = "Ok" /\ s.val.tag = "Active" THEN <<s.val.pool>> ELSE <<>>)
            \o ActivePools(Tail(ids), st)

\* Mutant: the address is taken from the end of the id.
NewUnpaused_AddressFromSuffix(pool) ==
    LET state == pool.kind.state
        common == [id |-> pool.id, address |-> pool.id[2],
                   swap_fee |-> state.swap_fee, paused |-> FALSE]
    IN IF pool.kind.tag = "Weighted"
       THEN [common |-> common, reserves |-> state.tokens]
       ELSE [common |-> common, reserves |-> state.tokens,
             amplification_parameter |-> state.amplification_parameter]

\* WeightedPool::new_unpaused, StablePool::new_unpaused
NewUnpaused(pool) ==
    LET state == pool.kind.state
        common == [id |-> pool.id, address |-> pool_address_from_id(pool.id),
                   swap_fee |-> state.swap_fee, paused |-> FALSE]
    IN IF pool.kind.tag = "Weighted"
       THEN [common |-> common, reserves |-> state.tokens]
       ELSE [common |-> common, reserves |-> state.tokens,
             amplification_parameter |-> state.amplification_parameter]

\* Mutant: the fold keeps the weighted pools only.
SplitPools_WeightedOnly(pools) ==
    [stable_pools |-> <<>>,
     weighted_pools |-> SelectSeq([i \in 1..Len(pools) |-> NewUnpaused(pools[i])],
                                  LAMBDA p : "amplification_parameter" \notin DOMAIN p)]

\* The fold of fetch: every pool is pushed to the list of its kind.
RECURSIVE SplitPools(_)
SplitPools(pools) ==
    IF pools = <<>> THEN [stable_pools |-> <<>>, weighted_pools |-> <<>>]
    ELSE LET n == Len(pools)
             rest == SplitPools(SubSeq(pools, 1, n - 1))
         IN IF pools[n].kind.tag = "Weighted"
            THEN [rest EXCEPT !.weighted_pools = Append(@, NewUnpaused(pools[n]))]
            ELSE [rest EXCEPT !.stable_pools = Append(@, NewUnpaused(pools[n]))]

\* The other components before they did anything: no conversion was called,
\* no pool info was built, no registry was made.
OthersIdle ==
    /\ calc = NotYet
    /\ built = NotYet
    /\ index = NoneOpt
    /\ seen = <<>>
    /\ first = NotYet
    /\ sync = NotYet
    /\ cache = NotYet
    /\ maint = NotYet
    /\ idx = NotYet
    /\ agg = NotYet
    /\ store = NotYet
    /\ second = NotYet
    /\ http = NotYet
    /\ pag = NotYet
    /\ subsidy = NotYet

InitWith(kinds) ==
    /\ registry \in Registries(kinds)
    /\ pool_id_deny_list \in SUBSET PoolIdSet
    /\ phase = "idle"
    /\ token_pairs = {}
    /\ at_block = Latest
    /\ pool_ids = {}
    /\ batch = EmptyBag
    /\ results = <<>>
    /\ pc = [id \in PoolIdSet |-> "idle"]
    /\ chan = [id \in PoolIdSet |-> Empty]
    /\ common_res = [id \in PoolIdSet |-> NotYet]
    /\ status = [id \in PoolIdSet |-> NotYet]
    /\ fetched = NotYet
    /\ OthersIdle

Init == InitWith({"Weighted", "Oracle"})
\* P1 comes from another factory, one that can disable a pool.
InitGeneric == InitWith({"Other"})

\* fetch(token_pairs, at_block) up to the call of pools_by_id.
Fetch(pairs, block) ==
    /\ phase = "idle"
    /\ phase' = "queueing"
    /\ token_pairs' = pairs
    /\ at_block' = block
    /\ pool_ids' = RemoveDenied(PoolIdsForTokenPairs(registry, pairs),
                                pool_id_deny_list)
    /\ UNCHANGED others
    /\ UNCHANGED <<registry, pool_id_deny_list, batch, results, pc, chan,
                   common_res, status, fetched>>

\* pools_by_id calls fetch_pool for one of the pools asked for: the reads
\* are queued, the futures are created and nothing is polled.
CallFetchPool(id) ==
    /\ phase = "queueing"
    /\ id \in pool_ids
    /\ pc[id] = "idle"
    /\ batch' = batch (+) SeqToBag(FetchPoolReads(registry[id], at_block))
    /\ pc' = [pc EXCEPT ![id] = "created"]
    /\ UNCHANGED others
    /\ UNCHANGED <<registry, pool_id_deny_list, phase, token_pairs, at_block,
                   pool_ids, results, chan, common_res, status, fetched>>

\* batch.execute_all: every queued call gets its result.
ExecuteBatch ==
    /\ phase = "queueing"
    /\ \A id \in pool_ids : pc[id] = "created"
    /\ \E w \in Chains(registry, pool_ids) :
          results' = [c \in BagToSet(batch) |-> ChainRead(w, c)]
    /\ phase' = "executed"
    /\ UNCHANGED others
    /\ UNCHANGED <<registry, pool_id_deny_list, token_pairs, at_block,
                   pool_ids, batch, pc, chan, common_res, status, fetched>>

\* The fetch_pool future awaits common_pool_state: the common-state future
\* resolves from its three reads and inspect publishes the outcome.
PollCommon(id) ==
    /\ phase = "executed"
    /\ pc[id] = "created"
    /\ LET reads == CommonReads(registry[id].common, at_block)
       IN /\ Resolved(reads)
          /\ LET res == CommonPoolState(registry[id].common, ReadOf(reads[1]),
                                        ReadOf(reads[2]), ReadOf(reads[3]))
                 shared == Inspect(chan[id], res)
             IN /\ common_res' = [common_res EXCEPT ![id] = shared.out]
                /\ chan' = [chan EXCEPT ![id] = shared.chan]
    /\ pc' = [pc EXCEPT ![id] = "common"]
    /\ UNCHANGED others
    /\ UNCHANGED <<registry, pool_id_deny_list, phase, token_pairs, at_block,
                   pool_ids, batch, results, status, fetched>>

\* The ? on the common state and the early return of a paused pool.
CheckCommon(id) ==
    /\ phase = "executed"
    /\ pc[id] = "common"
    /\ LET g == CommonGate(common_res[id])
       IN CASE g = "err" ->
                 /\ status' = [status EXCEPT ![id] = common_res[id]]
                 /\ pc' = [pc EXCEPT ![id] = "done"]
            [] g = "paused" ->
                 /\ status' = [status EXCEPT ![id] = Ok(Paused)]
                 /\ pc' = [pc EXCEPT ![id] = "done"]
            [] OTHER ->
                 /\ status' = status
                 /\ pc' = [pc EXCEPT ![id] = "kind"]
    /\ UNCHANGED others
    /\ UNCHANGED <<registry, pool_id_deny_list, phase, token_pairs, at_block,
                   pool_ids, batch, results, chan, common_res, fetched>>

\* The fetch_pool future awaits pool_state: the factory's future takes the
\* common state from the shared future (which panics when nothing or an
\* error was published), then awaits its own read.
PollKind(id) ==
    /\ phase = "executed"
    /\ pc[id] = "kind"
    /\ LET reads == KindReads(registry[id], at_block)
           common == SharedRecv(chan[id])
       IN IF common.tag = "Panic"
          THEN /\ status' = [status EXCEPT ![id] = common]
               /\ pc' = [pc EXCEPT ![id] = "panicked"]
          ELSE /\ Resolved(reads)
               /\ LET own == IF reads = <<>> THEN Error("none")
                             ELSE ReadOf(reads[1])
                  IN status' = [status EXCEPT ![id] =
                        FinalStatus(registry[id],
                                    PoolStateOf(registry[id], common.val, own))]
               /\ pc' = [pc EXCEPT ![id] = "done"]
    /\ UNCHANGED others
    /\ UNCHANGED <<registry, pool_id_deny_list, phase, token_pairs, at_block,
                   pool_ids, batch, results, chan, common_res, fetched>>

\* pools_by_id keeps the Active pools and fetch splits them by kind.
Collect ==
    /\ phase = "executed"
    /\ \A id \in pool_ids : pc[id] = "done"
    /\ fetched' = SplitPools(ActivePools(SortedKeysOfIds(pool_ids), status))
    /\ phase' = "done"
    /\ UNCHANGED others
    /\ UNCHANGED <<registry, pool_id_deny_list, token_pairs, at_block,
                   pool_ids, batch, results, pc, chan, common_res, status>>

Next ==
    \/ \E pairs \in SUBSET TokenPairs, block \in Blocks : Fetch(pairs, block)
    \/ \E id \in PoolIdSet : CallFetchPool(id)
    \/ ExecuteBatch
    \/ \E id \in PoolIdSet : PollCommon(id)
    \/ \E id \in PoolIdSet : CheckCommon(id)
    \/ \E id \in PoolIdSet : PollKind(id)
    \/ Collect

Spec == Init /\ [][Next]_vars
SpecGeneric == InitGeneric /\ [][Next]_vars

(***************************************************************************)
(* Properties.  The answers of the chain to the reads of one pool are      *)
(* taken from the executed batch by the call itself, not through the       *)
(* operators that queue the reads.                                         *)
(***************************************************************************)
PausedAnswer(id) ==
    ReadOf(Call(pool_address_from_id(id), <<>>, "get_paused_state", at_block))
SwapFeeAnswer(id) ==
    ReadOf(Call(pool_address_from_id(id), <<>>, "get_swap_fee_percentage", at_block))
PoolTokensAnswer(id) ==
    ReadOf(Call(VaultAddress, id, "get_pool_tokens", at_block))
OwnAnswer(id) ==
    ReadOf(Call(pool_address_from_id(id), <<>>, OwnMethod(registry[id].factory),
                at_block))

\* The common-state read of the pool succeeded: three answers, the recorded
\* token list.
CommonReadOk(id) ==
    /\ PausedAnswer(id).tag = "Ok"
    /\ SwapFeeAnswer(id).tag = "Ok"
    /\ PoolTokensAnswer(id).tag = "Ok"
    /\ PoolTokensAnswer(id).val.tokens = registry[id].common.tokens
\* The fetch_pool future of the pool has gone past the common state.
PastCommon(id) == pc[id] \in {"kind", "done", "panicked"}
IsActive(s) == s.tag = "Ok" /\ s.val.tag = "Active"
IsError(s) == s.tag = "Err"

\* C1: pause dominates.  A pool whose common-state read succeeds and reports
\* paused = true resolves to Paused, whatever its factory's own read gave.
C1_PauseDominates ==
    \A id \in PoolIdSet :
        (PastCommon(id) /\ CommonReadOk(id) /\ PausedAnswer(id).val)
            => (pc[id] = "done" /\ status[id] = Ok(Paused))
\* A paused stable pool whose amplification read failed, and a paused
\* weighted pool, both resolved to Paused.
C1_Witness ==
    /\ \A id \in PoolIdSet :
          /\ pc[id] = "done" /\ CommonReadOk(id) /\ PausedAnswer(id).val
          /\ status[id] = Ok(Paused)
    /\ OwnAnswer(P2) = Error("rpc")

\* C2: no pool on the deny list is in weighted_pools or stable_pools of a
\* fetch result.
C2_DenyListedNeverFetched ==
    phase = "done" =>
        /\ \A i \in 1..Len(fetched.weighted_pools) :
              fetched.weighted_pools[i].common.id \notin pool_id_deny_list
        /\ \A i \in 1..Len(fetched.stable_pools) :
              fetched.stable_pools[i].common.id \notin pool_id_deny_list
\* A fetch whose token pairs select both pools, one of them deny-listed,
\* returned the other one.
C2_Witness ==
    /\ phase = "done"
    /\ PoolIdsForTokenPairs(registry, token_pairs) = PoolIdSet
    /\ pool_id_deny_list = {P1}
    /\ Len(fetched.stable_pools) = 1
    /\ fetched.weighted_pools = <<>>

\* C3: the shared common state is read only after its producer published an
\* Ok value: the shared future never panics, and whenever the factory's
\* future is about to be polled the channel holds an Ok value.
C3_SharedReadAfterPublish ==
    \A id \in PoolIdSet :
        /\ pc[id] # "panicked"
        /\ pc[id] = "kind" => chan[id].tag = "Ok"
        /\ chan[id].tag = "Err" => pc[id] \in {"common", "done"}
\* One pool whose common read failed (an error was published and the
\* factory's future never polled) beside one whose factory's future took the
\* published state.
C3_Witness ==
    /\ pc[P1] = "done" /\ chan[P1] = Error("()") /\ IsError(status[P1])
    /\ pc[P2] = "done" /\ chan[P2].tag = "Ok" /\ IsActive(status[P2])

\* C4: a pool-tokens read whose token list differs from the recorded one
\* makes fetch_pool resolve to an error.
C4_TokenMismatchIsError ==
    \A id \in PoolIdSet :
        (pc[id] \in {"kind", "done", "panicked"}
         /\ PoolTokensAnswer(id).tag = "Ok"
         /\ PoolTokensAnswer(id).val.tokens # registry[id].common.tokens)
            => (pc[id] = "done" /\ IsError(status[id]))
\* The same tokens in another order for an unpaused pool with good reads,
\* and other tokens for a paused pool: both resolved to the mismatch error.
C4_Witness ==
    /\ pc[P1] = "done" /\ PausedAnswer(P1) = Ok(FALSE) /\ SwapFeeAnswer(P1).tag = "Ok"
    /\ PoolTokensAnswer(P1).tag = "Ok"
    /\ PoolTokensAnswer(P1).val.tokens = Reverse(registry[P1].common.tokens)
    /\ status[P1] = Error("pool token mismatch")
    /\ pc[P2] = "done" /\ PausedAnswer(P2) = Ok(TRUE) /\ SwapFeeAnswer(P2).tag = "Ok"
    /\ PoolTokensAnswer(P2).tag = "Ok"
    /\ Range(PoolTokensAnswer(P2).val.tokens) # Range(registry[P2].common.tokens)
    /\ status[P2] = Error("pool token mismatch")

\* The output of the factory's future of an unpaused pool, from the common
\* state and the answer to the factory's own read.
KindStateOf(id) ==
    PoolStateOf(registry[id], common_res[id].val, OwnAnswer(id))
\* The fetch_pool future resolved for an unpaused pool whose common-state
\* read succeeded.
ResolvedUnpaused(id) ==
    /\ pc[id] \in {"done", "panicked"}
    /\ CommonReadOk(id) /\ ~PausedAnswer(id).val
    /\ common_res[id].tag = "Ok"

\* C5: for an unpaused pool whose common-state read succeeded, fetch_pool
\* gives Disabled exactly when the factory's state is None and Active exactly
\* when it is a state, and the Active pool carries the id of the pool info
\* and that state.
C5_DisabledIffNone ==
    \A id \in PoolIdSet :
        ResolvedUnpaused(id) =>
            LET ks == KindStateOf(id)
                none == ks.tag = "Ok" /\ ks.val.tag = "None"
                some == ks.tag = "Ok" /\ ks.val.tag = "Some"
            IN /\ (status[id] = Ok(Disabled)) <=> none
               /\ IsActive(status[id]) <=> some
               /\ IsActive(status[id]) =>
                     /\ status[id].val.pool.id = registry[id].common.id
                     /\ status[id].val.pool.kind.state = ks.val.val
\* A pool of a factory that disabled it resolved to Disabled beside a stable
\* pool that resolved to Active.
C5_Witness ==
    /\ ResolvedUnpaused(P1) /\ OwnAnswer(P1) = Ok(FALSE)
    /\ status[P1] = Ok(Disabled)
    /\ ResolvedUnpaused(P2) /\ IsActive(status[P2])

\* The amplification read of an unpaused stable pool with a good common
\* state failed.
AmplificationReadFailed(id) ==
    /\ registry[id].factory = "Stable"
    /\ ResolvedUnpaused(id)
    /\ OwnAnswer(id).tag = "Err"

AnswersResolved(id) ==
    /\ PausedAnswer(id).tag # "Pending"
    /\ SwapFeeAnswer(id).tag # "Pending"
    /\ PoolTokensAnswer(id).tag # "Pending"
    /\ OwnMethod(registry[id].factory) # "none" => OwnAnswer(id).tag # "Pending"

\* C7: queue before execute.  Nothing is polled before the batch was
\* executed; the executed batch holds every read the futures await, nothing
\* is queued after the execution, every future that has not resolved can
\* take its next step, and fetch returns with every future resolved.
C7_QueueBeforeExecute ==
    /\ phase \in {"idle", "queueing"} =>
          /\ results = <<>>
          /\ \A id \in PoolIdSet : pc[id] \in {"idle", "created"}
    /\ phase \in {"executed", "done"} =>
          /\ DOMAIN results = BagToSet(batch)
          /\ \A id \in pool_ids :
                /\ AnswersResolved(id)
                /\ \/ pc[id] = "done"
                   \/ ENABLED (PollCommon(id) \/ CheckCommon(id) \/ PollKind(id))
    /\ phase = "done" =>
          \A id \in pool_ids : pc[id] = "done" /\ status[id] # NotYet
\* fetch returned for two pools, the stable one Active from its four reads.
C7_Witness ==
    /\ phase = "done" /\ pool_ids = PoolIdSet
    /\ IsActive(status[P2]) /\ OwnAnswer(P2).tag = "Ok"
    /\ status[P1] # NotYet

\* How many times a method of the pool (of its contract, or of the vault for
\* its id) is in the batch.
RECURSIVE Copies(_)
Copies(calls) ==
    IF calls = {} THEN 0
    ELSE LET c == CHOOSE x \in calls : TRUE
         IN CopiesIn(c, batch) + Copies(calls \ {c})
CallsOfPool(id) ==
    {c \in BagToSet(batch) :
        c.to = pool_address_from_id(id) \/ (c.to = VaultAddress /\ c.arg = id)}
QueuedCount(id, methods) ==
    Copies({c \in CallsOfPool(id) : c.method \in methods})
AllMethods ==
    CommonMethods \cup {"get_amplification_parameter", "get_swap_enabled"}

\* C8: one fetch_pool call queues each common read exactly once; the weighted
\* and the oracle-weighted factory queue no read, the stable one exactly one.
C8_CommonReadsOnce ==
    \A id \in PoolIdSet :
        IF pc[id] = "idle" THEN QueuedCount(id, AllMethods) = 0
        ELSE /\ \A m \in CommonMethods : QueuedCount(id, {m}) = 1
             /\ QueuedCount(id, AllMethods \ CommonMethods) =
                    (IF registry[id].factory = "Stable" THEN 1 ELSE 0)
\* Both pools were queued, the first an oracle-weighted one: seven reads.
C8_Witness ==
    /\ phase = "executed"
    /\ \A id \in PoolIdSet : pc[id] = "created"
    /\ registry[P1].factory = "Oracle"
    /\ BagCardinality(batch) = 7

\* C9: block pinning.  Every read of the batch is bound to the block id that
\* was passed to fetch_pool.
C9_BlockPinned ==
    \A c \in BagToSet(batch) : c.block = at_block
\* A stable pool Active at a numbered block, all its four reads at that block.
C9_Witness ==
    /\ at_block = Number(1)
    /\ IsActive(status[P2])
    /\ \A c \in CallsOfPool(P2) : c.block = Number(1)
    /\ QueuedCount(P2, AllMethods) = 4

\* fetch_pool for the pool alone, from the answers to its own reads.
StatusAlone(id) ==
    LET common == CommonPoolState(registry[id].common, PausedAnswer(id),
                                  SwapFeeAnswer(id), PoolTokensAnswer(id))
    IN IF common.tag = "Err" THEN common
       ELSE IF common.val.paused THEN Ok(Paused)
       ELSE FinalStatus(registry[id],
                        PoolStateOf(registry[id], common.val, OwnAnswer(id)))

\* C10: when a pool of the batch fails, the status of every other pool is the
\* one its own reads give.
C10_SiblingsUnaffected ==
    \A id \in PoolIdSet : \A other \in PoolIdSet \ {id} :
        (pc[id] \in {"done", "panicked"} /\ pc[other] = "done"
         /\ IsError(status[other]))
            => /\ AnswersResolved(id)
               /\ status[id] = StatusAlone(id)
\* The first pool failed on a token mismatch and its sibling, queued into
\* the same batch, is Active.
C10_Witness ==
    /\ pc[P1] = "done" /\ status[P1] = Error("pool token mismatch")
    /\ pc[P2] = "done" /\ IsActive(status[P2])


(***************************************************************************)
(* Numbers.  A u8 is a number of 0..U8Max.  A U256 is the sequence of its  *)
(* U256Limbs limbs below LimbBase, the least significant first; its          *)
(* multiplication panics on overflow.                                      *)
(***************************************************************************)
U8Max == 255
U8 == 0..U8Max
U256Limbs == 16
LimbBase == 65536

Panic(why) == [tag |-> "Panic", why |-> why]

\* u8::checked_sub
checked_sub(a, b) == IF b <= a THEN SomeOpt(a - b) ELSE NoneOpt
\* u8::wrapping_sub
wrapping_sub(a, b) == (a - b + U8Max + 1) % (U8Max + 1)

\* U256::from of a number below LimbBase.
U256From(n) == [i \in 1..U256Limbs |-> IF i = 1 THEN n ELSE 0]

\* The limbs of x * k + carry, followed by the carry out of the last limb.
RECURSIVE MulLimbs(_, _, _)
MulLimbs(x, k, carry) ==
    IF x = <<>> THEN <<carry>>
    ELSE LET p == Head(x) * k + carry
         IN <<p % LimbBase>> \o MulLimbs(Tail(x), k, p \div LimbBase)

\* x * k for a k below LimbBase.
U256Mul(x, k) ==
    LET r == MulLimbs(x, k, 0)
    IN IF r[U256Limbs + 1] # 0 THEN Panic("arithmetic operation overflow")
       ELSE Ok(SubSeq(r, 1, U256Limbs))

\* U256::from(base).pow(n)
RECURSIVE U256Pow(_, _)
U256Pow(base, n) ==
    IF n = 0 THEN Ok(U256From(1))
    ELSE LET r == U256Pow(base, n - 1)
         IN IF r.tag # "Ok" THEN r ELSE U256Mul(r.val, base)

(***************************************************************************)
(* common.rs: the conversions between decimals, scaling exponents and      *)
(* scaling rates.                                                          *)
(***************************************************************************)
\* Mutant: the subtraction wraps.
scaling_exponent_from_decimals_Wrapping(decimals) ==
    Ok(wrapping_sub(18, decimals))

scaling_exponent_from_decimals(decimals) ==
    LET e == checked_sub(18, decimals)
    IN IF e.tag = "None"
       THEN Error("unsupported token with more than 18 decimals")
       ELSE Ok(e.val)

\* Mutant: the rate is taken of the exponent, not of the decimals.
compute_scaling_rate_OfExponent(scaling_exponent) ==
    IF scaling_exponent > 18
    THEN Error("underflow computing decimals from Koyo pool scaling exponent")
    ELSE U256Pow(10, scaling_exponent)

\* Mutant: the subtraction saturates.
compute_scaling_rate_Saturating(scaling_exponent) ==
    U256Pow(10, IF scaling_exponent > 18 THEN 0 ELSE 18 - scaling_exponent)

compute_scaling_rate(scaling_exponent) ==
    LET decimals == checked_sub(18, scaling_exponent)
    IN IF decimals.tag = "None"
       THEN Error("underflow computing decimals from Koyo pool scaling exponent")
       ELSE IF ~(decimals.val <= 18)
       THEN Panic("assertion failed: decimals <= 18")
       ELSE U256Pow(10, decimals.val)

(***************************************************************************)
(* Building pool infos: from the records of the discovery source           *)
(* (from_graph_data) and from the chain for a newly created pool           *)
(* (fetch_pool_info).                                                      *)
(***************************************************************************)
MaxTokens == 2

\* graph_api::Token and graph_api::PoolData.
Token(address, decimals, weight) ==
    [address |-> address, decimals |-> decimals, weight |-> weight]
PoolData(pool_type, id, tokens) ==
    [pool_type |-> pool_type, id |-> id, address |-> pool_address_from_id(id),
     tokens |-> tokens]

\* collect::<Result<_>>(): the first error, or the list of the values.
CollectResults(rs) ==
    LET bad == {i \in 1..Len(rs) : rs[i].tag = "Err"}
    IN IF bad # {} THEN rs[CHOOSE i \in bad : \A j \in bad : i <= j]
       ELSE Ok([i \in 1..Len(rs) |-> rs[i].val])

\* common::PoolInfo::from_graph_data
from_graph_data(pool, block_created) ==
    IF ~(Len(pool.tokens) > 1) THEN Error("insufficient tokens in pool")
    ELSE LET exps == CollectResults([i \in 1..Len(pool.tokens) |->
                         scaling_exponent_from_decimals(pool.tokens[i].decimals)])
         IN IF exps.tag = "Err" THEN exps
            ELSE Ok([id |-> pool.id, address |-> pool.address,
                     tokens |-> [i \in 1..Len(pool.tokens) |->
                                    pool.tokens[i].address],
                     scaling_exponents |-> exps.val,
                     block_created |-> block_created])

\* common::PoolInfo::for_type
for_type(pool_type, pool, block_created) ==
    IF pool.pool_type # pool_type THEN Error("cannot convert pool")
    ELSE from_graph_data(pool, block_created)

\* weighted::PoolInfo::from_graph_data
WeightedFromGraphData(pool, block_created) ==
    LET common == for_type("Weighted", pool, block_created)
        weights == CollectResults([i \in 1..Len(pool.tokens) |->
                       IF pool.tokens[i].weight.tag = "None"
                       THEN Error("missing weights for pool")
                       ELSE Ok(pool.tokens[i].weight.val)])
    IN IF common.tag = "Err" THEN common
       ELSE IF weights.tag = "Err" THEN weights
       ELSE Ok([common |-> common.val, weights |-> weights.val])

\* stable::PoolInfo::from_graph_data
StableFromGraphData(pool, block_created) ==
    LET common == for_type("Stable", pool, block_created)
    IN IF common.tag = "Err" THEN common
       ELSE Ok([common |-> common.val, weights |-> <<>>])

\* Factory::PoolInfo::from_graph_data: the oracle-weighted factory has the
\* PoolInfo of the weighted one.
FactoryFromGraphData(kind, pool, block_created) ==
    IF kind = "Stable" THEN StableFromGraphData(pool, block_created)
    ELSE WeightedFromGraphData(pool, block_created)

\* Mutant: the registered pools are recorded as created at block 0.
InitialPools_CreatedAtZero(kind, registered_pools) ==
    CollectResults([i \in 1..Len(registered_pools.pools) |->
        FactoryFromGraphData(kind, registered_pools.pools[i], 0)])

\* Mutant: the records that cannot be converted are left out.
InitialPools_SkipInvalid(kind, registered_pools) ==
    LET infos == [i \in 1..Len(registered_pools.pools) |->
                     FactoryFromGraphData(kind, registered_pools.pools[i],
                                          registered_pools.fetched_block_number)]
        valid == SelectSeq(infos, LAMBDA r : r.tag = "Ok")
    IN Ok([i \in 1..Len(valid) |-> valid[i].val])

\* create_internal_pool_fetcher: the infos of all registered pools, or the
\* first error.
InitialPools(kind, registered_pools) ==
    CollectResults([i \in 1..Len(registered_pools.pools) |->
        FactoryFromGraphData(kind, registered_pools.pools[i],
                             registered_pools.fetched_block_number)])

\* PoolInfoFetcher::scaling_exponents; token_infos is what get_token_infos
\* answered, a map from some of the tokens to their optional decimals.
scaling_exponents(token_infos, tokens) ==
    CollectResults([i \in 1..Len(tokens) |->
        IF tokens[i] \notin DOMAIN token_infos THEN Error("missing token info")
        ELSE IF token_infos[tokens[i]].tag = "None"
        THEN Error("missing decimals for token")
        ELSE scaling_exponent_from_decimals(token_infos[tokens[i]].val)])

\* PoolInfoFetcher::fetch_common_pool_info; chain holds the answers to
\* getPoolId, getPoolTokens and the token infos.
fetch_common_pool_info(pool_address, block_created, chain) ==
    IF chain.pool_id.tag = "Err" THEN chain.pool_id
    ELSE IF chain.pool_tokens.tag = "Err" THEN chain.pool_tokens
    ELSE LET exps == scaling_exponents(chain.token_infos, chain.pool_tokens.val)
         IN IF exps.tag = "Err" THEN exps
            ELSE Ok([id |-> chain.pool_id.val, address |-> pool_address,
                     tokens |-> chain.pool_tokens.val,
                     scaling_exponents |-> exps.val,
                     block_created |-> block_created])

\* Bfp::from_wei wraps the number it is given.
BfpFromWei(n) == n

\* KoyoV2WeightedPoolFactory::specialize_pool_info
WeightedSpecialize(pool, chain) ==
    IF chain.weights.tag = "Err" THEN chain.weights
    ELSE Ok([common |-> pool,
             weights |-> [i \in 1..Len(chain.weights.val) |->
                             BfpFromWei(chain.weights.val[i])]])

\* KoyoV2StablePoolFactory::specialize_pool_info
StableSpecialize(pool, chain) == Ok([common |-> pool, weights |-> <<>>])

\* Mutant: the oracle-weighted factory keeps the common info only.
specialize_pool_info_OracleAlone(kind, pool, chain) ==
    IF kind = "Weighted" THEN WeightedSpecialize(pool, chain)
    ELSE StableSpecialize(pool, chain)

\* Factory::specialize_pool_info; the oracle-weighted factory calls the
\* weighted factory at its own address.
specialize_pool_info(kind, pool, chain) ==
    CASE kind = "Stable" -> StableSpecialize(pool, chain)
      [] kind = "Weighted" -> WeightedSpecialize(pool, chain)
      [] kind = "Oracle" -> WeightedSpecialize(pool, chain)

\* PoolInfoFetcher::fetch_pool_info
fetch_pool_info(kind, pool_address, block_created, chain) ==
    LET common == fetch_common_pool_info(pool_address, block_created, chain)
    IN IF common.tag = "Err" THEN common
       ELSE specialize_pool_info(kind, common.val, chain)

\* The inputs.  A discovery record has up to MaxTokens tokens, the token at
\* position i with address i; the source may give any decimals and may
\* leave the weight out.
GraphDecimals == {6, 18, 19, U8Max}
GraphWeights == {NoneOpt, SomeOpt(50)}
PoolTypes == {"Weighted", "Stable"}
GraphTokenLists ==
    UNION {{[i \in 1..n |-> Token(i, f[i][1], f[i][2])] :
               f \in [1..n -> GraphDecimals \X GraphWeights]} : n \in 0..MaxTokens}
GraphPools == {PoolData(t, P1, toks) : t \in PoolTypes, toks \in GraphTokenLists}
\* A second record of the same source: a good pool of either type, or a
\* pool of one token.
SecondPools ==
    {PoolData(t, P2, <<Token(2, 18, SomeOpt(50)), Token(3, 6, SomeOpt(50))>>) :
        t \in PoolTypes}
    \cup {PoolData("Weighted", P2, <<Token(2, 18, SomeOpt(50))>>)}
RegisteredPools ==
    [pools : {<<>>} \cup {<<a>> : a \in GraphPools}
                    \cup {<<a, b>> : a \in GraphPools, b \in SecondPools},
     fetched_block_number : {1}]

\* The pool created later and what the chain and the token infos answer
\* for it.
P3 == <<13, 3>>
ChainTokens == {1, 2}
ChainTokenLists == UNION {[1..n -> ChainTokens] : n \in 0..MaxTokens}
TokenInfoMaps ==
    UNION {[S -> {NoneOpt, SomeOpt(6), SomeOpt(19)}] : S \in SUBSET ChainTokens}
CreatedAnswers ==
    [pool_id : {Ok(P3), Error("rpc")},
     pool_tokens : {Ok(l) : l \in ChainTokenLists} \cup {Error("rpc")},
     token_infos : TokenInfoMaps,
     weights : {Ok(<<40, 60>>), Ok(<<100>>), Error("rpc")}]

\* A conversion is called on a u8.
CallScalingExponent(decimals) ==
    /\ calc = NotYet /\ built = NotYet
    /\ calc' = [fn |-> "scaling_exponent_from_decimals", arg |-> decimals,
                result |-> scaling_exponent_from_decimals(decimals)]
    /\ UNCHANGED <<fetch_vars, built, index>>
    /\ UNCHANGED <<after_info, later, outer>>

CallScalingRate(scaling_exponent) ==
    /\ calc = NotYet /\ built = NotYet
    /\ calc' = [fn |-> "compute_scaling_rate", arg |-> scaling_exponent,
                result |-> compute_scaling_rate(scaling_exponent)]
    /\ UNCHANGED <<fetch_vars, built, index>>
    /\ UNCHANGED <<after_info, later, outer>>

\* The exponent that was made of the decimals of a token is turned into the
\* scaling rate of the token, as the price estimator does with the
\* exponents kept in the state of a pool.
CallScalingRateOfExponent ==
    /\ calc # NotYet /\ built = NotYet
    /\ calc.fn = "scaling_exponent_from_decimals"
    /\ calc.result.tag = "Ok"
    /\ calc' = [fn |-> "compute_scaling_rate", arg |-> calc.result.val,
                result |-> compute_scaling_rate(calc.result.val),
                decimals |-> calc.arg]
    /\ UNCHANGED <<fetch_vars, built, index>>
    /\ UNCHANGED <<after_info, later, outer>>

\* create_internal_pool_fetcher: the registry of one factory is made from
\* the registered pools, or the construction fails.
CreateInternalPoolFetcher(kind, registered_pools) ==
    /\ calc = NotYet /\ built = NotYet
    /\ LET initial_pools == InitialPools(kind, registered_pools)
       IN /\ built' = [via |-> "graph", factory |-> kind,
                       input |-> registered_pools, result |-> initial_pools]
          /\ index' = IF initial_pools.tag = "Err" THEN NoneOpt
                      ELSE SomeOpt([factory |-> kind,
                                    pools |-> Range(initial_pools.val)])
    /\ UNCHANGED <<fetch_vars, calc>>
    /\ UNCHANGED <<after_info, later, outer>>

\* The registry sees the creation of pool P3: the info is fetched and, when
\* that succeeded, entered into the index.  A run has one creation event.
PoolCreated(chain) ==
    /\ index.tag = "Some"
    /\ built.via = "graph"
    /\ LET info == fetch_pool_info(index.val.factory, pool_address_from_id(P3),
                                   MaxBlock, chain)
       IN /\ built' = [via |-> "chain", factory |-> index.val.factory,
                       input |-> chain, result |-> info]
          /\ index' = IF info.tag = "Err" THEN index
                      ELSE SomeOpt([index.val EXCEPT !.pools = @ \cup {info.val}])
    /\ UNCHANGED <<fetch_vars, calc>>
    /\ UNCHANGED <<after_info, later, outer>>

NextInfo ==
    \/ \E d \in U8 : CallScalingExponent(d)
    \/ \E e \in U8 : CallScalingRate(e)
    \/ CallScalingRateOfExponent
    \/ \E kind \in FactoryKinds, r \in RegisteredPools :
          CreateInternalPoolFetcher(kind, r)
    \/ \E chain \in CreatedAnswers : PoolCreated(chain)

InitInfo == InitWith({"Weighted"}) /\ pool_id_deny_list = {}
SpecInfo == InitInfo /\ [][NextInfo]_vars

\* The pool infos of the last build.
BuiltInfos ==
    IF built = NotYet \/ built.result.tag = "Err" THEN {}
    ELSE IF built.via = "graph" THEN Range(built.result.val)
    ELSE {built.result.val}
IndexedInfos == IF index.tag = "Some" THEN index.val.pools ELSE {}

\* C11: every pool info built from a discovery record or from the chain for
\* a newly created pool, and every pool info of a registry index, has at
\* least two tokens.
C11_AtLeastTwoTokens ==
    \A p \in BuiltInfos \cup IndexedInfos : Len(p.common.tokens) >= 2

\* The decimals a discovery record gives for token j of its pool i, and
\* those the token infos give for token j of the created pool.
GraphDecimalsOf(i, j) == built.input.pools[i].tokens[j].decimals
ChainDecimalsOf(j) == built.input.token_infos[built.input.pool_tokens.val[j]]

\* C12: the scaling exponent of d decimals is 18 - d for d <= 18 and an
\* error for every larger u8, never a wrapped value; a pool info is built,
\* on either path, only with the exponents 18 - d of decimals d <= 18.
C12_ScalingExponent ==
    /\ (calc # NotYet /\ calc.fn = "scaling_exponent_from_decimals") =>
          IF calc.arg <= 18 THEN calc.result = Ok(18 - calc.arg)
          ELSE calc.result.tag = "Err"
    /\ (built # NotYet /\ built.via = "graph" /\ built.result.tag = "Ok") =>
          \A i \in 1..Len(built.result.val) :
             LET exps == built.result.val[i].common.scaling_exponents
             IN \A j \in 1..Len(built.input.pools[i].tokens) :
                   /\ GraphDecimalsOf(i, j) <= 18
                   /\ exps[j] = 18 - GraphDecimalsOf(i, j)
    /\ (built # NotYet /\ built.via = "chain" /\ built.result.tag = "Ok") =>
          LET info == built.result.val.common
          IN /\ Len(info.scaling_exponents) = Len(info.tokens)
             /\ \A j \in 1..Len(info.tokens) :
                   /\ ChainDecimalsOf(j).tag = "Some"
                   /\ ChainDecimalsOf(j).val <= 18
                   /\ info.scaling_exponents[j] = 18 - ChainDecimalsOf(j).val

\* A discovery record of two tokens, the second with more than 18
\* decimals, was refused for that.
C12_Witness ==
    /\ built # NotYet /\ built.via = "graph"
    /\ built.result = Error("unsupported token with more than 18 decimals")
    /\ Len(built.input.pools) = 1
    /\ Len(built.input.pools[1].tokens) = 2
    /\ GraphDecimalsOf(1, 1) = 18
    /\ GraphDecimalsOf(1, 2) = U8Max

\* The decimal digits of a U256, the least significant first.
RECURSIVE DivLimbs(_, _, _)
\* x from its most significant limb on, divided by k with the remainder
\* rem coming in: the limbs of the quotient, then the remainder.
DivLimbs(x, k, rem) ==
    IF x = <<>> THEN <<rem>>
    ELSE LET cur == rem * LimbBase + Head(x)
         IN <<cur \div k>> \o DivLimbs(Tail(x), k, cur % k)
RECURSIVE Decimal(_)
Decimal(x) ==
    IF \A i \in 1..Len(x) : x[i] = 0 THEN <<>>
    ELSE LET r == DivLimbs(Reverse(x), 10, 0)
         IN <<r[Len(x) + 1]>> \o Decimal(Reverse(SubSeq(r, 1, Len(x))))
\* The digits of 10^n.
PowerOfTen(n) == [i \in 1..(n + 1) |-> IF i = n + 1 THEN 1 ELSE 0]

\* C13: for every u8 e, compute_scaling_rate(e) is 10^(18-e) when e <= 18
\* and an error, not a panic, when e > 18.
C13_ScalingRate ==
    (calc # NotYet /\ calc.fn = "compute_scaling_rate") =>
        IF calc.arg <= 18
        THEN /\ calc.result.tag = "Ok"
             /\ Decimal(calc.result.val) = PowerOfTen(18 - calc.arg)
        ELSE calc.result.tag = "Err"

\* The rate of the exponent 0 is 10^18, a number of more than one limb.
C13_Witness ==
    /\ calc # NotYet /\ calc.fn = "compute_scaling_rate" /\ calc.arg = 0
    /\ calc.result.tag = "Ok"
    /\ calc.result.val[4] # 0
    /\ Len(Decimal(calc.result.val)) = 19

\* C39: the round trip of the scaling helpers.  For every decimals value d
\* from 0 to 18, scaling_exponent_from_decimals(d) succeeds, and
\* compute_scaling_rate of its exponent succeeds with 10^d.
C39_ScalingRoundTrip ==
    /\ (calc # NotYet /\ calc.fn = "scaling_exponent_from_decimals"
          /\ calc.arg \in 0..18) =>
          calc.result.tag = "Ok"
    /\ (calc # NotYet /\ "decimals" \in DOMAIN calc) =>
          /\ calc.decimals \in 0..18
          /\ calc.result.tag = "Ok"
          /\ Decimal(calc.result.val) = PowerOfTen(calc.decimals)

\* A token of 6 decimals has the exponent 12 and the rate 1000000.
C39_Witness ==
    /\ calc # NotYet /\ "decimals" \in DOMAIN calc
    /\ calc.decimals = 6
    /\ calc.arg = 12
    /\ calc.result.tag = "Ok"
    /\ Decimal(calc.result.val) = <<0, 0, 0, 0, 0, 0, 1>>

(***************************************************************************)
(* The weights of a weighted pool.  The pool info lists the tokens in the  *)
(* order the vault gives them, which need not be the order of their        *)
(* addresses.                                                              *)
(***************************************************************************)
\* P1 with its tokens listed as 2, 1: token 2 has the weight 60.
InfoP1Unsorted(kind) ==
    [factory |-> kind, common |-> CommonInfo(P1, <<2, 1>>, <<12, 0>>, 1),
     weights |-> <<60, 40>>]

InitOrder ==
    /\ registry \in {[id \in PoolIdSet |-> IF id = P1 THEN i ELSE InfoP2] :
                        i \in {InfoP1(k) : k \in {"Weighted", "Oracle"}}
                              \cup {InfoP1Unsorted(k) : k \in {"Weighted", "Oracle"}}}
    /\ pool_id_deny_list = {}
    /\ phase = "idle"
    /\ token_pairs = {}
    /\ at_block = Latest
    /\ pool_ids = {}
    /\ batch = EmptyBag
    /\ results = <<>>
    /\ pc = [id \in PoolIdSet |-> "idle"]
    /\ chan = [id \in PoolIdSet |-> Empty]
    /\ common_res = [id \in PoolIdSet |-> NotYet]
    /\ status = [id \in PoolIdSet |-> NotYet]
    /\ fetched = NotYet
    /\ OthersIdle

SpecOrder == InitOrder /\ [][Next]_vars

\* The token states of the Active pool fetch_pool returned.
ActiveTokens(id) == status[id].val.pool.kind.state.tokens

\* C14: the state of an Active weighted or oracle-weighted pool has one
\* entry for every token of the common state, and the entry of the token at
\* index i of the pool's token list carries that token's common state and
\* the weight at index i of the pool info.
C14_WeightOfOwnToken ==
    \A id \in PoolIdSet :
        (registry[id].factory \in {"Weighted", "Oracle"} /\ pc[id] = "done"
         /\ IsActive(status[id])) =>
            LET info == registry[id]
                common == common_res[id].val.tokens
            IN /\ DOMAIN ActiveTokens(id) = DOMAIN common
               /\ \A i \in 1..Len(info.common.tokens) :
                     LET t == info.common.tokens[i]
                     IN t \in DOMAIN common =>
                           /\ ActiveTokens(id)[t].common = common[t]
                           /\ ActiveTokens(id)[t].weight = info.weights[i]

(***************************************************************************)
(* The oracle-weighted factory: indexing a pool from the chain, then       *)
(* fetching it.                                                            *)
(***************************************************************************)
\* What the chain answers for P1 when its info is fetched: the weights in
\* either order, or a failed read.
OracleAnswers ==
    [pool_id : {Ok(P1)}, pool_tokens : {Ok(<<1, 2>>)},
     token_infos : {[t \in {1, 2} |-> IF t = 1 THEN SomeOpt(18) ELSE SomeOpt(6)]},
     weights : {Ok(<<40, 60>>), Ok(<<60, 40>>), Error("rpc")}]

\* The registry of the oracle-weighted factory fetches the info of P1 from
\* the chain and, when that succeeded, indexes the pool with it.
OracleIndexed(chain) ==
    /\ phase = "idle"
    /\ built = NotYet
    /\ LET info == fetch_pool_info("Oracle", pool_address_from_id(P1), 1, chain)
       IN /\ built' = [via |-> "chain", factory |-> "Oracle", input |-> chain,
                       result |-> info]
          /\ registry' = IF info.tag = "Err" THEN registry
                         ELSE [registry EXCEPT ![P1] =
                                  [factory |-> "Oracle", common |-> info.val.common,
                                   weights |-> info.val.weights]]
    /\ UNCHANGED <<pool_id_deny_list, phase, token_pairs, at_block, pool_ids,
                   batch, results, pc, chan, common_res, status, fetched,
                   calc, index>>
    /\ UNCHANGED <<after_info, later, outer>>

InitOracle == InitWith({"Oracle"}) /\ pool_id_deny_list = {}
NextOracle ==
    \/ \E chain \in OracleAnswers : OracleIndexed(chain)
    \/ Next
SpecOracle == InitOracle /\ [][NextOracle]_vars

\* The same pool info in the registry of the weighted factory.
AsWeighted(info) == [info EXCEPT !.factory = "Weighted"]
\* The calls of the batch that are for the pool, as a bag.
BagOfPool(id) == [c \in CallsOfPool(id) |-> CopiesIn(c, batch)]

\* C15: the oracle-weighted factory gives what the weighted factory gives on
\* the same inputs: specialize_pool_info the weighted factory's info or
\* error, fetch_pool_state no read of its own and the weighted factory's
\* state.
C15_OracleAsWeighted ==
    /\ (built # NotYet /\ built.factory = "Oracle") =>
          LET common == fetch_common_pool_info(pool_address_from_id(P1), 1,
                                               built.input)
          IN /\ common.tag = "Ok"
             /\ built.result = WeightedSpecialize(common.val, built.input)
    /\ \A id \in PoolIdSet :
          registry[id].factory = "Oracle" =>
             /\ pc[id] # "idle" =>
                   BagOfPool(id) =
                      SeqToBag(CommonReads(registry[id].common, at_block)
                               \o KindReads(AsWeighted(registry[id]), at_block))
             /\ (pc[id] = "done" /\ common_res[id].tag = "Ok"
                 /\ ~common_res[id].val.paused) =>
                   status[id] =
                      FinalStatus(AsWeighted(registry[id]),
                                  WeightedPoolState(AsWeighted(registry[id]),
                                                    common_res[id].val))

\* P1 was indexed by the oracle-weighted factory with the weights 60, 40
\* read from the chain and then fetched Active with these weights.
C15_Witness ==
    /\ built # NotYet /\ built.factory = "Oracle" /\ built.result.tag = "Ok"
    /\ registry[P1].weights = <<60, 40>>
    /\ pc[P1] = "done" /\ IsActive(status[P1])
    /\ ActiveTokens(P1)[1].weight = 60
    /\ BagCardinality(BagOfPool(P1)) = 3

(***************************************************************************)
(* Two fetch cycles at the same numbered block.  What the chain holds at a *)
(* numbered block does not change; a read at the latest block is answered  *)
(* from whatever the head is when the batch is executed.                   *)
(***************************************************************************)
\* The caller fetches the same token pairs at the same block again: the
\* outcome of the first cycle is kept aside, the new cycle starts with its
\* own batch and futures.
Refetch ==
    /\ phase = "done"
    /\ first = NotYet
    /\ at_block # Latest
    /\ first' = [status |-> status, fetched |-> fetched]
    /\ seen' = results
    /\ phase' = "queueing"
    /\ pool_ids' = RemoveDenied(PoolIdsForTokenPairs(registry, token_pairs),
                                pool_id_deny_list)
    /\ batch' = EmptyBag
    /\ results' = <<>>
    /\ pc' = [id \in PoolIdSet |-> "idle"]
    /\ chan' = [id \in PoolIdSet |-> Empty]
    /\ common_res' = [id \in PoolIdSet |-> NotYet]
    /\ status' = [id \in PoolIdSet |-> NotYet]
    /\ fetched' = NotYet
    /\ UNCHANGED <<registry, pool_id_deny_list, token_pairs, at_block>>
    /\ UNCHANGED <<info_vars, sync, cache, maint, later, outer>>

\* batch.execute_all of the first cycle.
ExecuteFirst == first = NotYet /\ ExecuteBatch

\* batch.execute_all of the second cycle: a call at a numbered block that
\* was made before has the result it had, any other call is answered anew.
ExecuteAgain ==
    /\ first # NotYet
    /\ phase = "queueing"
    /\ \A id \in pool_ids : pc[id] = "created"
    /\ LET known(c) == c.block # Latest /\ c \in DOMAIN seen
       IN IF \A c \in BagToSet(batch) : known(c)
          THEN results' = [c \in BagToSet(batch) |-> seen[c]]
          ELSE \E w \in Chains(registry, pool_ids) :
                  results' = [c \in BagToSet(batch) |->
                                 IF known(c) THEN seen[c] ELSE ChainRead(w, c)]
    /\ phase' = "executed"
    /\ UNCHANGED <<registry, pool_id_deny_list, token_pairs, at_block,
                   pool_ids, batch, pc, chan, common_res, status, fetched>>
    /\ UNCHANGED others

InitTwice == InitWith({"Weighted"}) /\ pool_id_deny_list = {}
NextTwice ==
    \/ \E pairs \in SUBSET TokenPairs, block \in Blocks : Fetch(pairs, block)
    \/ \E id \in PoolIdSet : CallFetchPool(id)
    \/ ExecuteFirst
    \/ \E id \in PoolIdSet : PollCommon(id)
    \/ \E id \in PoolIdSet : CheckCommon(id)
    \/ \E id \in PoolIdSet : PollKind(id)
    \/ Collect
    \/ Refetch
    \/ ExecuteAgain
SpecTwice == InitTwice /\ [][NextTwice]_vars

\* C16: a second fetch at the same numbered block gives every pool the
\* status, and the caller the pools, that the first fetch gave.
C16_SameBlockSameResult ==
    first # NotYet =>
        /\ \A id \in PoolIdSet :
              pc[id] \in {"done", "panicked"} => status[id] = first.status[id]
        /\ phase = "done" => fetched = first.fetched

\* Both pools were fetched twice at block 1 and are Active both times.
C16_Witness ==
    /\ first # NotYet /\ phase = "done" /\ at_block = Number(1)
    /\ \A id \in PoolIdSet : IsActive(status[id]) /\ IsActive(first.status[id])
    /\ Len(fetched.weighted_pools) = 1 /\ Len(fetched.stable_pools) = 1

(***************************************************************************)
(* The hard failure of fetch: pools_by_id itself returns an error, which   *)
(* fetch_pools and fetch propagate with ?.                                 *)
(***************************************************************************)
\* The aggregate reaches none of its registries: pools_by_id fails before
\* any pool is read and fetch returns that error.
AggregateFails ==
    /\ phase = "queueing"
    /\ \A id \in PoolIdSet : pc[id] = "idle"
    /\ fetched' = Error("no registry reachable")
    /\ phase' = "done"
    /\ UNCHANGED <<registry, pool_id_deny_list, token_pairs, at_block,
                   pool_ids, batch, results, pc, chan, common_res, status>>
    /\ UNCHANGED others

InitAggregate == InitWith({"Weighted"}) /\ pool_id_deny_list = {}
NextAggregate ==
    \/ AggregateFails
    \/ Next
SpecAggregate == InitAggregate /\ [][NextAggregate]_vars

\* The ids of the pools fetch returned.
FetchedIds ==
    {fetched.weighted_pools[i].common.id : i \in 1..Len(fetched.weighted_pools)}
    \cup {fetched.stable_pools[i].common.id : i \in 1..Len(fetched.stable_pools)}

\* C17: fetch ends in an error only when the aggregate reached no registry,
\* before any pool was read; otherwise it returns exactly the pools asked
\* for whose status is Active, whatever the reads of the other pools gave.
C17_HardErrorOnlyFromAggregate ==
    phase = "done" =>
        IF fetched = Error("no registry reachable")
        THEN \A id \in PoolIdSet : pc[id] = "idle" /\ status[id] = NotYet
        ELSE /\ DOMAIN fetched = {"stable_pools", "weighted_pools"}
             /\ FetchedIds = {id \in pool_ids : IsActive(status[id])}

\* The reads of P1 gave a token mismatch and P2 is returned alone.
C17_Witness ==
    /\ phase = "done" /\ pool_ids = PoolIdSet
    /\ status[P1] = Error("pool token mismatch")
    /\ IsActive(status[P2])
    /\ FetchedIds = {P2}

(***************************************************************************)
(* A registry that follows the chain.  Pool P3 is created on the chain at  *)
(* some block.  The registry is seeded from the discovery source as of     *)
(* fetched_block_number, replays the creation events of later blocks when  *)
(* it is synced, and answers a query at a block with the pools it has      *)
(* recorded as created by that block.                                      *)
(***************************************************************************)
MaxHead == 4
ChainBlocks == 1..MaxHead

\* The record of P3 in the discovery source, and what the chain answers
\* when its info is fetched.
P3Data ==
    PoolData("Weighted", P3,
             <<Token(1, 18, SomeOpt(50)), Token(2, 6, SomeOpt(50))>>)
P3Answers ==
    [pool_id |-> Ok(P3), pool_tokens |-> Ok(<<1, 2>>),
     token_infos |-> [t \in {1, 2} |-> IF t = 1 THEN SomeOpt(18) ELSE SomeOpt(6)],
     weights |-> Ok(<<50, 50>>)]

\* The pools of the index a query at the block sees.
VisibleAt(pools, block) ==
    {p.common.id : p \in {q \in pools : q.common.block_created <= block}}

\* create_internal_pool_fetcher for a discovery source read at block
\* fetched: it knows P3 when P3 was created by then.
SeedRegistry(created, fetched_block) ==
    /\ sync = NotYet
    /\ LET registered_pools ==
              [pools |-> IF created <= fetched_block THEN <<P3Data>> ELSE <<>>,
               fetched_block_number |-> fetched_block]
           initial_pools == InitialPools("Weighted", registered_pools)
       IN sync' = [created_at |-> created, seeded_at |-> fetched_block,
                   watermark |-> fetched_block,
                   pools |-> Range(initial_pools.val), query |-> NoneOpt]
    /\ UNCHANGED <<fetch_vars, info_vars, seen, first, cache, maint, later, outer>>

\* The registry replays the creation events up to the target block.
SyncTo(target) ==
    /\ sync # NotYet
    /\ sync.watermark < target
    /\ LET replayed == sync.watermark < sync.created_at
                       /\ sync.created_at <= target
           info == fetch_pool_info("Weighted", pool_address_from_id(P3),
                                   sync.created_at, P3Answers)
       IN sync' = [sync EXCEPT !.watermark = target,
                               !.pools = IF replayed THEN @ \cup {info.val} ELSE @,
                               !.query = NoneOpt]
    /\ UNCHANGED <<fetch_vars, info_vars, seen, first, cache, maint, later, outer>>

\* A query at a block: the ids come from the index, which is not asked
\* about a block, and pools_by_id answers for the block.
Query(block) ==
    /\ sync # NotYet
    /\ sync' = [sync EXCEPT !.query =
                   SomeOpt([at_block |-> block,
                            ids |-> VisibleAt(sync.pools, block)])]
    /\ UNCHANGED <<fetch_vars, info_vars, seen, first, cache, maint, later, outer>>

InitSync == InitWith({"Weighted"}) /\ pool_id_deny_list = {}
NextSync ==
    \/ \E c \in ChainBlocks, f \in ChainBlocks : SeedRegistry(c, f)
    \/ \E t \in ChainBlocks : SyncTo(t)
    \/ \E b \in ChainBlocks : Query(b)
SpecSync == InitSync /\ [][NextSync]_vars

\* A query was answered.
Answered == sync # NotYet /\ sync.query.tag = "Some"
\* The registry had replayed the chain through the block of the query.
SyncedThroughQuery == sync.query.val.at_block <= sync.watermark
\* P3 came with the seed / was replayed from its creation event.
Seeded == sync.created_at <= sync.seeded_at
Replayed == sync.seeded_at < sync.created_at /\ sync.created_at <= sync.watermark

MaxRetries == 3

\* The arguments of the program that concern the pool cache.
Arguments ==
    [pool_cache_blocks : {10},
     pool_cache_maximum_recent_block_age : {4},
     pool_cache_maximum_retries : 0..MaxRetries,
     pool_cache_delay_between_retries_seconds : {1, 5}]

\* Mutant: the retry bound is taken from the maximum recent block age.
CacheConfig_RetriesFromBlockAge(args) ==
    [number_of_blocks_to_cache |-> args.pool_cache_blocks,
     number_of_entries_to_auto_update |-> 0,
     maximum_recent_block_age |-> args.pool_cache_maximum_recent_block_age,
     max_retries |-> args.pool_cache_maximum_recent_block_age,
     delay_between_retries |-> args.pool_cache_delay_between_retries_seconds]

\* main.rs: let cache_config = CacheConfig { .. }
CacheConfig(args) ==
    [number_of_blocks_to_cache |-> args.pool_cache_blocks,
     number_of_entries_to_auto_update |-> 0,
     maximum_recent_block_age |-> args.pool_cache_maximum_recent_block_age,
     max_retries |-> args.pool_cache_maximum_retries,
     delay_between_retries |-> args.pool_cache_delay_between_retries_seconds]

\* What one call of the underlying fetch gives: the pools at the block, or a
\* transient error.
UnderlyingOutcomes(block) ==
    {Ok([at |-> block, pools |-> ids]) : ids \in SUBSET {P1, P2}}
        \cup {Error("rpc"), Error("timeout")}

\* The Cache is made with the configuration and a caller's fetch at a block
\* misses.
CacheFetch(args, block) ==
    /\ cache = NotYet
    /\ cache' = [args |-> args, config |-> CacheConfig(args), block |-> block,
                 outcomes |-> <<>>, slept |-> <<>>, result |-> NotYet]
    /\ UNCHANGED <<fetch_vars, info_vars, seen, first, sync, maint, later, outer>>

\* One call of the underlying fetch: its value is returned; after an error
\* the Cache sleeps the configured delay and tries again, unless the
\* retries are used up, when the error is returned.
Attempt(outcome) ==
    /\ cache # NotYet
    /\ cache.result = NotYet
    /\ outcome \in UnderlyingOutcomes(cache.block)
    /\ LET retries == Len(cache.slept)
       IN cache' =
             IF outcome.tag = "Ok"
             THEN [cache EXCEPT !.outcomes = Append(@, outcome),
                                !.result = outcome]
             ELSE IF retries < cache.config.max_retries
             THEN [cache EXCEPT !.outcomes = Append(@, outcome),
                                !.slept = Append(@, cache.config.delay_between_retries)]
             ELSE [cache EXCEPT !.outcomes = Append(@, outcome),
                                !.result = outcome]
    /\ UNCHANGED <<fetch_vars, info_vars, seen, first, sync, maint, later, outer>>

InitCache == InitWith({"Weighted"}) /\ pool_id_deny_list = {}
NextCache ==
    \/ \E args \in Arguments, n \in 1..MaxBlock : CacheFetch(args, n)
    \/ \E n \in 1..MaxBlock :
          \E outcome \in UnderlyingOutcomes(n) :
             cache # NotYet /\ cache.block = n /\ Attempt(outcome)
SpecCache == InitCache /\ [][NextCache]_vars

\* C19: the Cache sleeps the configured delay between two attempts and
\* retries at most pool_cache_maximum_retries times; it returns the value of
\* the first attempt that succeeds, so the third after two failures when
\* the bound allows two retries, and it returns the error once an attempt
\* fails with the retries used up.
C19_BoundedRetries ==
    cache # NotYet =>
        LET bound == cache.args.pool_cache_maximum_retries
            n == Len(cache.outcomes)
        IN /\ Len(cache.slept) <= bound
           /\ n <= bound + 1
           /\ \A i \in 1..Len(cache.slept) :
                 cache.slept[i] = cache.args.pool_cache_delay_between_retries_seconds
           /\ \A i \in 1..(n - 1) : cache.outcomes[i].tag = "Err"
           /\ IF n > 0 /\ cache.outcomes[n].tag = "Ok"
              THEN cache.result = cache.outcomes[n] /\ Len(cache.slept) = n - 1
              ELSE IF n = bound + 1
              THEN cache.result = cache.outcomes[n] /\ Len(cache.slept) = bound
              ELSE cache.result = NotYet /\ Len(cache.slept) = n

\* Two failures, then the pools: returned after two sleeps of the delay.
C19_Witness ==
    /\ cache # NotYet
    /\ cache.args.pool_cache_maximum_retries = 2
    /\ cache.outcomes = <<Error("rpc"), Error("timeout"),
                          Ok([at |-> 1, pools |-> {P1}])>>
    /\ cache.slept = <<5, 5>>
    /\ cache.result = Ok([at |-> 1, pools |-> {P1}])

(***************************************************************************)
(* Maintenance: on every new head the driver calls run_maintenance of the  *)
(* pool fetcher, which is the Cache's, which refreshes the hot queries.    *)
(***************************************************************************)
MaxHot == 2

\* The queries (sets of token pairs) callers have made, named by number.
HotQueries == 1..MaxHot

\* The configurations a pool fetcher can be made with: the solver's, and
\* ones that auto-update some entries.
Configs ==
    {CacheConfig(args) : args \in Arguments}
        \cup {[CacheConfig(args) EXCEPT !.number_of_entries_to_auto_update = n] :
                 args \in {a \in Arguments : a.pool_cache_maximum_retries = 0},
                 n \in 1..MaxHot}

\* Mutant: the pool fetcher answers a maintenance with an error of its own.
KoyoRunMaintenance_OwnError(fetcher_result) ==
    Error("maintenance")

\* impl Maintaining for KoyoPoolFetcher: self.fetcher.run_maintenance().await
KoyoRunMaintenance(fetcher_result) ==
    fetcher_result

\* The entries the Cache refreshes: the N hottest of the recent queries.
Hottest(config, hot) ==
    SubSeq(hot, 1, Min(config.number_of_entries_to_auto_update, Len(hot)))

RECURSIVE LoggedFailures(_, _, _)
LoggedFailures(queries, outcomes, head) ==
    IF queries = <<>> THEN <<>>
    ELSE (IF outcomes[1].tag = "Err"
          THEN <<[head |-> head, query |-> queries[1], error |-> outcomes[1]]>>
          ELSE <<>>)
         \o LoggedFailures(Tail(queries), Tail(outcomes), head)

\* Cache::run_maintenance: the hottest queries are re-issued against the
\* new head; a failure is logged; the call returns Ok.
CacheRunMaintenance(config, hot, head, outcomes) ==
    [logged |-> LoggedFailures(Hottest(config, hot), outcomes, head),
     result |-> Ok(<<>>)]

\* KoyoPoolFetcher::new with a configuration.
NewFetcher(config) ==
    /\ maint = NotYet
    /\ maint' = [config |-> config, hot |-> <<>>, head |-> 0,
                 log |-> <<>>, returned |-> <<>>]
    /\ UNCHANGED <<fetch_vars, info_vars, seen, first, sync, cache, later, outer>>

\* A caller's query becomes the most recent one.
Queried(q) ==
    /\ maint # NotYet
    /\ IF maint.hot = <<>> THEN TRUE ELSE maint.hot[1] # q
    /\ maint' = [maint EXCEPT
                    !.hot = <<q>> \o SelectSeq(@, LAMBDA x : x # q)]
    /\ UNCHANGED <<fetch_vars, info_vars, seen, first, sync, cache, later, outer>>

\* The driver sees a new head and calls run_maintenance of the pool
\* fetcher; every refresh succeeds or fails.
NewHead(outcomes) ==
    /\ maint # NotYet
    /\ maint.head < MaxHead
    /\ Len(outcomes) = Len(Hottest(maint.config, maint.hot))
    /\ LET head == maint.head + 1
           done == CacheRunMaintenance(maint.config, maint.hot, head, outcomes)
       IN maint' = [maint EXCEPT
                       !.head = head,
                       !.log = @ \o done.logged,
                       !.returned = Append(@, KoyoRunMaintenance(done.result))]
    /\ UNCHANGED <<fetch_vars, info_vars, seen, first, sync, cache, later, outer>>

RefreshOutcomes == {Ok(<<>>), Error("rpc")}
RefreshRuns == UNION {[1..n -> RefreshOutcomes] : n \in 0..MaxHot}

InitMaintenance == InitWith({"Weighted"}) /\ pool_id_deny_list = {}
NextMaintenance ==
    \/ \E config \in Configs : NewFetcher(config)
    \/ \E q \in HotQueries : Queried(q)
    \/ \E outcomes \in RefreshRuns : NewHead(outcomes)
SpecMaintenance == InitMaintenance /\ [][NextMaintenance]_vars

\* C20: run_maintenance of the pool fetcher returned Ok for every head the
\* driver saw, also for the heads at which the refresh of a hot query
\* failed and was logged: no error of a refresh reaches the driver, which
\* has been called once for every head so far.
C20_RefreshFailureNotPropagated ==
    maint # NotYet =>
        /\ Len(maint.returned) = maint.head
        /\ \A h \in 1..maint.head : maint.returned[h].tag = "Ok"
        /\ \A i \in 1..Len(maint.log) :
              /\ maint.log[i].head \in 1..maint.head
              /\ maint.returned[maint.log[i].head] = Ok(<<>>)

\* The refresh of a hot query failed at head 1 and was logged, and the
\* driver went on to head 2.
C20_Witness ==
    /\ maint # NotYet
    /\ maint.head >= 2
    /\ \E i \in 1..Len(maint.log) :
          maint.log[i].head = 1 /\ maint.log[i].error = Error("rpc")
    /\ Len(maint.returned) >= 2

(***************************************************************************)
(* The registry's index under a sync cycle and concurrent readers.  The    *)
(* cycle fetches the infos of the pools created up to its target, which    *)
(* suspends, and then updates the index; a reader takes the index as it is *)
(* when it runs.                                                           *)
(***************************************************************************)
P4 == <<14, 4>>
P4Answers ==
    [pool_id |-> Ok(P4), pool_tokens |-> Ok(<<2, 3>>),
     token_infos |-> [t \in {2, 3} |-> SomeOpt(18)],
     weights |-> Ok(<<50, 50>>)]
LaterPools == {P3, P4}
AnswersFor(id) == IF id = P3 THEN P3Answers ELSE P4Answers

\* The index as a map from the pool id.
IndexOf(pools) ==
    [id \in {p.common.id : p \in pools} |->
        CHOOSE p \in pools : p.common.id = id]

\* The infos of the pools whose creation events lie in (from, to], in the
\* order of the events.
RECURSIVE CreatedInfos(_, _, _)
CreatedInfos(created, from, to) ==
    IF from >= to THEN <<>>
    ELSE LET block == from + 1
             here == SortedKeysOfIds({id \in DOMAIN created : created[id] = block})
         IN [k \in 1..Len(here) |->
                fetch_pool_info("Weighted", pool_address_from_id(here[k]), block,
                                AnswersFor(here[k])).val]
            \o CreatedInfos(created, block, to)

\* Mutant: the pools are inserted one after the other, the index being
\* readable in between.
IndexUpdate_OneByOne(pools, new_pools) ==
    IF new_pools = <<>> THEN <<pools>>
    ELSE [k \in 1..Len(new_pools) |->
             pools \cup {new_pools[j] : j \in 1..k}]

\* The states of the index a reader can find during the update: the update
\* excludes the readers, so only its end.
IndexUpdate(pools, new_pools) ==
    <<pools \cup Range(new_pools)>>

\* A registry seeded at block 1 with pool P1; P3 and P4 are created later.
MakeRegistry(c3, c4) ==
    /\ idx = NotYet
    /\ LET registered_pools ==
              [pools |-> <<PoolData("Weighted", P1,
                                    <<Token(1, 18, SomeOpt(40)),
                                      Token(2, 6, SomeOpt(60))>>)>>,
               fetched_block_number |-> 1]
           pools == Range(InitialPools("Weighted", registered_pools).val)
       IN idx' = [pools |-> pools, watermark |-> 1,
                  created |-> [id \in LaterPools |-> IF id = P3 THEN c3 ELSE c4],
                  cycle |-> NoneOpt, before |-> pools, new |-> <<>>,
                  reads |-> {}]
    /\ UNCHANGED <<fetch_vars, info_vars, after_info, agg, store, second, http, outer>>

\* A sync cycle starts: the infos of the created pools are fetched.
BeginSync(target) ==
    /\ idx # NotYet
    /\ idx.cycle = NoneOpt
    /\ idx.watermark < target
    /\ LET new == CreatedInfos(idx.created, idx.watermark, target)
       IN idx' = [idx EXCEPT !.cycle = SomeOpt([target |-> target,
                                                steps |-> IndexUpdate(idx.pools, new)]),
                             !.before = idx.pools,
                             !.new = new,
                             !.reads = {}]
    /\ UNCHANGED <<fetch_vars, info_vars, after_info, agg, store, second, http, outer>>

\* The cycle updates the index.
ApplyUpdate ==
    /\ idx # NotYet
    /\ idx.cycle # NoneOpt
    /\ idx.cycle.val.steps # <<>>
    /\ idx' = [idx EXCEPT !.pools = Head(idx.cycle.val.steps),
                          !.cycle = SomeOpt([idx.cycle.val EXCEPT
                                                !.steps = Tail(@)])]
    /\ UNCHANGED <<fetch_vars, info_vars, after_info, agg, store, second, http, outer>>

\* The cycle ends: the watermark is its target.
EndSync ==
    /\ idx # NotYet
    /\ idx.cycle # NoneOpt
    /\ idx.cycle.val.steps = <<>>
    /\ idx' = [idx EXCEPT !.watermark = idx.cycle.val.target,
                          !.cycle = NoneOpt]
    /\ UNCHANGED <<fetch_vars, info_vars, after_info, agg, store, second, http, outer>>

\* What the two readers give on an index.
ReadResult(op, arg, pools) ==
    IF op = "pool_ids_for_token_pairs"
    THEN PoolIdsForTokenPairs(IndexOf(pools), arg)
    ELSE {p \in pools : p.common.id \in arg}

\* A reader runs: pool_ids_for_token_pairs or the lookup of pools_by_id.
ReadIndex(op, arg) ==
    /\ idx # NotYet
    /\ idx' = [idx EXCEPT !.reads = @ \cup
                  {[op |-> op, arg |-> arg, view |-> idx.pools,
                    result |-> ReadResult(op, arg, idx.pools)]}]
    /\ UNCHANGED <<fetch_vars, info_vars, after_info, agg, store, second, http, outer>>

ReaderCalls ==
    {<<"pool_ids_for_token_pairs", {pr}>> : pr \in {<<1, 2>>, <<2, 3>>}}
        \cup {<<"pools_by_id", {P1, P3, P4}>>}

InitIndex == InitWith({"Weighted"}) /\ pool_id_deny_list = {}
NextIndex ==
    \/ \E c3 \in 2..MaxHead, c4 \in 2..MaxHead : MakeRegistry(c3, c4)
    \/ \E t \in ChainBlocks : BeginSync(t)
    \/ ApplyUpdate
    \/ EndSync
    \/ \E call \in ReaderCalls : ReadIndex(call[1], call[2])
SpecIndex == InitIndex /\ [][NextIndex]_vars

\* C21: every reader that ran since the sync cycle started found the whole
\* index from before the cycle or the whole index after it, with all the
\* pools the cycle inserts, and answered from what it found.
C21_IndexAllOrNothing ==
    idx # NotYet =>
        \A r \in idx.reads :
            /\ r.view \in {idx.before, idx.before \cup Range(idx.new)}
            /\ r.result = ReadResult(r.op, r.arg, r.view)

\* A cycle that inserts P3 and P4: one reader found the index without
\* both, another one with both.
C21_Witness ==
    /\ idx # NotYet
    /\ Len(idx.new) = 2
    /\ \E r \in idx.reads :
          r.op = "pools_by_id" /\ {p.common.id : p \in r.result} = {P1}
    /\ \E r \in idx.reads :
          r.op = "pools_by_id" /\ {p.common.id : p \in r.result} = {P1, P3, P4}

(***************************************************************************)
(* Bootstrap: create_aggregate_pool_fetcher makes one registry for every   *)
(* factory of the contracts from what the discovery source returned, and   *)
(* the Aggregate over them.                                                *)
(***************************************************************************)
\* The addresses of the factory contracts, and one of no known factory.
FactoryAddress(kind) ==
    CASE kind = "Weighted" -> 21
      [] kind = "Oracle" -> 22
      [] kind = "Stable" -> 23
UnknownFactory == 29

\* A record of the discovery source with the factory that made the pool.
Discovered(factory, pool) == [factory |-> factory, pool |-> pool]
TwoTokens(a, b) == <<Token(a, 18, SomeOpt(50)), Token(b, 6, SomeOpt(50))>>
DiscoveredPools ==
    {Discovered(FactoryAddress("Weighted"), PoolData("Weighted", P1, TwoTokens(1, 2))),
     Discovered(FactoryAddress("Stable"), PoolData("Stable", P2, TwoTokens(2, 3))),
     Discovered(FactoryAddress("Oracle"), PoolData("Weighted", P3, TwoTokens(1, 3))),
     Discovered(FactoryAddress("Stable"),
                PoolData("Stable", P4, <<Token(2, 18, SomeOpt(50))>>)),
     Discovered(UnknownFactory, PoolData("Weighted", P4, TwoTokens(1, 2))),
     Discovered(FactoryAddress("Weighted"),
                PoolData("Weighted", P4, <<Token(1, 19, SomeOpt(50)),
                                           Token(3, 6, SomeOpt(50))>>)),
     Discovered(FactoryAddress("Oracle"), PoolData("Stable", P4, TwoTokens(1, 3))),
     Discovered(FactoryAddress("Weighted"),
                PoolData("Weighted", P4, <<Token(1, 18, NoneOpt),
                                           Token(2, 6, SomeOpt(50))>>))}
DiscoveryResults ==
    [pools : {<<>>} \cup {<<a>> : a \in DiscoveredPools}
                    \cup {pr \in DiscoveredPools \X DiscoveredPools :
                             pr[1] # pr[2]},
     fetched_block_number : 1..MaxHead]

\* RegisteredPools::group_by_factory: the pools of one factory, with the
\* block number of the whole result; none when it made no pool.
GroupByFactory(registered_pools, factory) ==
    LET own == SelectSeq(registered_pools.pools, LAMBDA d : d.factory = factory)
    IN IF own = <<>> THEN NoneOpt
       ELSE SomeOpt([pools |-> [i \in 1..Len(own) |-> own[i].pool],
                     fetched_block_number |-> registered_pools.fetched_block_number])

\* RegisteredPools::empty
EmptyRegisteredPools(fetched_block_number) ==
    [pools |-> <<>>, fetched_block_number |-> fetched_block_number]

\* Mutant: a factory without pools gets a registry that starts at block 0.
RegisteredPoolsOf_EmptyAtZero(registered_pools, factory) ==
    LET own == GroupByFactory(registered_pools, factory)
    IN IF own.tag = "Some" THEN own.val ELSE EmptyRegisteredPools(0)

\* Mutant: every factory is given all the pools of the discovery.
RegisteredPoolsOf_Everything(registered_pools, factory) ==
    [pools |-> [i \in 1..Len(registered_pools.pools) |->
                   registered_pools.pools[i].pool],
     fetched_block_number |-> registered_pools.fetched_block_number]

\* registered_pools_by_factory.remove(&address)
\*     .unwrap_or_else(|| RegisteredPools::empty(fetched_block_number))
RegisteredPoolsOf(registered_pools, factory) ==
    LET fetched_block_number == registered_pools.fetched_block_number
        own == GroupByFactory(registered_pools, factory)
    IN IF own.tag = "Some" THEN own.val
       ELSE EmptyRegisteredPools(fetched_block_number)

\* create_internal_pool_fetcher: the Registry is made with the initial
\* pools and start_sync_at_block, or the construction fails.
InternalPoolFetcher(kind, registered_pools) ==
    LET initial_pools == InitialPools(kind, registered_pools)
        start_sync_at_block == SomeOpt(registered_pools.fetched_block_number)
    IN IF initial_pools.tag = "Err" THEN initial_pools
       ELSE Ok([factory |-> kind, pools |-> Range(initial_pools.val),
                start_sync_at_block |-> start_sync_at_block])

\* Mutant: no registry is made for the oracle-weighted factory.
Fetchers_NoOracle(factories, registered_pools) ==
    [kind \in factories \ {"Oracle"} |->
        InternalPoolFetcher(kind, RegisteredPoolsOf(registered_pools,
                                                    FactoryAddress(kind)))]

\* for (kind, instance) in &contracts.factories { fetchers.push(registry) }
Fetchers(factories, registered_pools) ==
    [kind \in factories |->
        InternalPoolFetcher(kind, RegisteredPoolsOf(registered_pools,
                                                    FactoryAddress(kind)))]

\* What is left in registered_pools_by_factory after the loop: the pools of
\* the addresses that no factory of the contracts has (total_count).
UnusedPools(factories, registered_pools) ==
    Len(SelectSeq(registered_pools.pools,
                  LAMBDA d : \A kind \in factories : d.factory # FactoryAddress(kind)))

\* create_aggregate_pool_fetcher: the first registry that cannot be made
\* fails it; the factories are visited in the order of a HashMap.  With
\* all registries made, the pools left over are warned about.
CreateAggregate(factories, registered_pools) ==
    /\ agg = NotYet
    /\ LET fetchers == Fetchers(factories, registered_pools)
           failed == {kind \in DOMAIN fetchers : fetchers[kind].tag = "Err"}
           total_count == UnusedPools(factories, registered_pools)
       IN IF failed = {}
          THEN agg' = [tag |-> "Ok", input |-> registered_pools,
                       factories |-> factories,
                       registries |-> [kind \in DOMAIN fetchers |-> fetchers[kind].val],
                       warned |-> IF total_count = 0 THEN NoneOpt
                                  ELSE SomeOpt(total_count),
                       call |-> NoneOpt]
          ELSE \E kind \in failed :
                  agg' = [tag |-> "Err", input |-> registered_pools,
                          factories |-> factories, why |-> fetchers[kind].why]
    /\ UNCHANGED <<fetch_vars, info_vars, after_info, idx, store, second, http, outer>>

\* The ids a registry has in its index.
RegistryIds(reg) == {p.common.id : p \in reg.pools}

\* Mutant: the ids of one registry only.
AggregateIds_OneRegistry(parts) ==
    IF DOMAIN parts = {} THEN {}
    ELSE parts[CHOOSE kind \in DOMAIN parts : TRUE]

\* Aggregate::pool_ids_for_token_pairs: the union over the registries.
AggregateIds(parts) == UNION {parts[kind] : kind \in DOMAIN parts}

\* Mutant: one failing partition fails the call.
AggregatePools_FailOnAny(parts) ==
    LET failed == {kind \in DOMAIN parts : parts[kind].tag = "Err"}
    IN IF failed # {} THEN parts[CHOOSE kind \in failed : TRUE]
       ELSE Ok(UNION {parts[kind].val : kind \in DOMAIN parts})

\* Aggregate::pools_by_id: the union of the partitions that succeeded; an
\* error when there are partitions and all of them failed.
AggregatePools(parts) ==
    LET failed == {kind \in DOMAIN parts : parts[kind].tag = "Err"}
    IN IF DOMAIN parts # {} /\ failed = DOMAIN parts
       THEN parts[CHOOSE kind \in failed : TRUE]
       ELSE Ok(UNION {parts[kind].val : kind \in DOMAIN parts \ failed})

\* A caller asks the Aggregate for the ids of the pools of token pairs.
AggregatePoolIds(pairs) ==
    /\ agg # NotYet
    /\ agg.tag = "Ok"
    /\ agg.call = NoneOpt
    /\ LET parts == [kind \in DOMAIN agg.registries |->
                        PoolIdsForTokenPairs(IndexOf(agg.registries[kind].pools),
                                             pairs)]
       IN agg' = [agg EXCEPT !.call =
                     SomeOpt([op |-> "pool_ids_for_token_pairs", arg |-> pairs,
                              parts |-> parts, result |-> AggregateIds(parts)])]
    /\ UNCHANGED <<fetch_vars, info_vars, after_info, idx, store, second, http, outer>>

\* A caller asks the Aggregate for pools it got the ids of: every registry
\* that registered some of them fetches its partition, and succeeds or
\* fails as a whole.
AggregatePoolsById(ids, fails) ==
    /\ agg # NotYet
    /\ agg.tag = "Ok"
    /\ agg.call = NoneOpt
    /\ LET routed == {kind \in DOMAIN agg.registries :
                         ids \cap RegistryIds(agg.registries[kind]) # {}}
       IN /\ fails \subseteq routed
          /\ ids \subseteq UNION {RegistryIds(agg.registries[kind]) :
                                     kind \in DOMAIN agg.registries}
          /\ LET parts == [kind \in routed |->
                              IF kind \in fails THEN Error("rpc")
                              ELSE Ok(ids \cap RegistryIds(agg.registries[kind]))]
             IN agg' = [agg EXCEPT !.call =
                           SomeOpt([op |-> "pools_by_id", arg |-> ids,
                                    parts |-> parts,
                                    result |-> AggregatePools(parts)])]
    /\ UNCHANGED <<fetch_vars, info_vars, after_info, idx, store, second, http, outer>>

InitBoot == InitWith({"Weighted"}) /\ pool_id_deny_list = {}
NextBoot ==
    \/ \E factories \in SUBSET FactoryKinds, r \in DiscoveryResults :
          CreateAggregate(factories, r)
    \/ \E pairs \in SUBSET TokenPairs : AggregatePoolIds(pairs)
    \/ \E ids \in SUBSET {P1, P2, P3, P4}, fails \in SUBSET FactoryKinds :
          AggregatePoolsById(ids, fails)
SpecBoot == InitBoot /\ [][NextBoot]_vars

\* The Aggregate was made and answered a call of the operation.
Called(op) ==
    agg # NotYet /\ agg.tag = "Ok" /\ agg.call # NoneOpt /\ agg.call.val.op = op

\* The discovered pools of the factories the contracts hold.
KnownDiscovered ==
    {d \in Range(agg.input.pools) :
        \E kind \in agg.factories : d.factory = FactoryAddress(kind)}
\* A token pair is covered by the tokens of a discovered pool.
Covers(d, pairs) ==
    \E pr \in pairs :
        {pr[1], pr[2]} \subseteq {d.pool.tokens[i].address :
                                     i \in 1..Len(d.pool.tokens)}

\* C22: the Aggregate's pool_ids_for_token_pairs is a set of pool ids, not
\* an error: the union of what the registries answer, which is the ids of
\* all the pools of its factories that hold both tokens of an asked pair.
C22_IdsAreUnion ==
    Called("pool_ids_for_token_pairs") =>
        LET c == agg.call.val
        IN /\ c.result \subseteq {P1, P2, P3, P4}
           /\ DOMAIN c.parts = agg.factories
           /\ c.result = UNION {c.parts[kind] : kind \in agg.factories}
           /\ c.result = {d.pool.id : d \in {e \in KnownDiscovered : Covers(e, c.arg)}}

\* The weighted and the oracle-weighted registry each give one pool.
C22_Witness ==
    /\ Called("pool_ids_for_token_pairs")
    /\ {"Weighted", "Oracle"} \subseteq agg.factories
    /\ agg.call.val.parts["Weighted"] = {P1}
    /\ agg.call.val.parts["Oracle"] = {P3}
    /\ agg.call.val.result = {P1, P3}

\* The registries whose partition succeeded.
Succeeded(c) == {kind \in DOMAIN c.parts : c.parts[kind].tag = "Ok"}

\* C23: the Aggregate's pools_by_id gives an error only when there are
\* partitions and every one of them failed; when at least one partition
\* succeeded it gives the union of the pools of the succeeding ones.
C23_FailsOnlyIfAllFail ==
    Called("pools_by_id") =>
        LET c == agg.call.val
        IN /\ c.result.tag = "Err" =>
                 DOMAIN c.parts # {} /\ Succeeded(c) = {}
           /\ Succeeded(c) # {} =>
                 c.result = Ok(UNION {c.parts[kind].val : kind \in Succeeded(c)})

\* The stable registry's partition failed, the weighted one's succeeded:
\* the call gives the weighted pool.
C23_Witness ==
    /\ Called("pools_by_id")
    /\ agg.call.val.arg = {P1, P2}
    /\ DOMAIN agg.call.val.parts = {"Weighted", "Stable"}
    /\ agg.call.val.parts["Stable"].tag = "Err"
    /\ agg.call.val.result = Ok({P1})

\* C28: after a bootstrap that succeeded, every registry -- also the one of
\* a factory without a pool in the discovery result -- starts its sync at
\* the block number the discovery source returned, every seeded pool is
\* recorded as created at that block, and there is one registry for every
\* factory.
C28_WatermarkIsFetchedBlock ==
    (agg # NotYet /\ agg.tag = "Ok") =>
        /\ DOMAIN agg.registries = agg.factories
        /\ \A kind \in DOMAIN agg.registries :
              LET reg == agg.registries[kind]
              IN /\ reg.start_sync_at_block = SomeOpt(agg.input.fetched_block_number)
                 /\ \A p \in reg.pools :
                       p.common.block_created = agg.input.fetched_block_number

\* The discovery source read at block 3 knows a weighted pool and no stable
\* pool: both registries start at block 3.
C28_Witness ==
    /\ agg # NotYet /\ agg.tag = "Ok"
    /\ agg.input.fetched_block_number = 3
    /\ {"Weighted", "Stable"} \subseteq agg.factories
    /\ agg.registries["Stable"].pools = {}
    /\ agg.registries["Stable"].start_sync_at_block = SomeOpt(3)
    /\ \E p \in agg.registries["Weighted"].pools :
          p.common.id = P1 /\ p.common.block_created = 3

(***************************************************************************)
(* The Cache's entries: queries that hit, queries that miss and delegate,  *)
(* the background refresh, and operations for one key that meet.           *)
(***************************************************************************)
MaxOps == 3

\* Arguments with a short recency window and a short retention.
WindowArguments ==
    [pool_cache_blocks : {2, 10},
     pool_cache_maximum_recent_block_age : {1, 4},
     pool_cache_maximum_retries : {0},
     pool_cache_delay_between_retries_seconds : {1}]
\* The solver's configuration refreshes nothing; others refresh one entry.
StoreConfigs ==
    {CacheConfig(args) : args \in {a \in WindowArguments : a.pool_cache_blocks = 10}}
        \cup {[CacheConfig(args) EXCEPT !.number_of_entries_to_auto_update = 1] :
                 args \in {a \in WindowArguments : a.pool_cache_blocks = 2}}

\* A key is a query (a set of token pairs, named by number) and a block.
Key(q, b) == <<q, b>>
PoolStates == {"s1", "s2"}

\* The requested block is recent enough for cached data to be reused.
Fresh(config, head, key) == head - key[2] <= config.maximum_recent_block_age

\* Mutant: an entry of the query at any block counts as a hit.
Lookup_AnyBlock(config, entries, head, key) ==
    LET same == {k \in DOMAIN entries : k[1] = key[1]}
    IN IF same = {} THEN NoneOpt
       ELSE SomeOpt(entries[CHOOSE k \in same : TRUE])

\* The cached result of an equivalent (token-pairs, block) query, if it is
\* there and fresh.
Lookup(config, entries, head, key) ==
    IF key \in DOMAIN entries /\ Fresh(config, head, key)
    THEN SomeOpt(entries[key])
    ELSE NoneOpt

AggregateOutcomes == {Ok(v) : v \in PoolStates} \cup {Error("rpc")}

\* Mutant: every operation fetches for itself.
Role_AlwaysOwner(inflight, key) == "owner"

\* An operation for a key that has an operation in flight waits for that
\* one; otherwise it is the one that fetches and writes the entry.
Role(inflight, key) ==
    IF \E op \in inflight : op.key = key THEN "waiter" ELSE "owner"

\* Cache::new with a configuration, at head 1.
NewCache(config) ==
    /\ store = NotYet
    /\ store' = [config |-> config, head |-> 1, entries |-> <<>>,
                 truth |-> <<>>, inflight |-> {}, started |-> 0,
                 calls |-> {}, replies |-> {}, writes |-> <<>>]
    /\ UNCHANGED <<fetch_vars, info_vars, after_info, idx, agg, second, http, outer>>

\* A new head: the entries of blocks out of the retained window go.
NewBlock ==
    /\ store # NotYet
    /\ store.head < MaxHead
    /\ LET head == store.head + 1
           kept == {k \in DOMAIN store.entries :
                       head - k[2] < store.config.number_of_blocks_to_cache}
       IN store' = [store EXCEPT !.head = head,
                                 !.entries = [k \in kept |-> store.entries[k]]]
    /\ UNCHANGED <<fetch_vars, info_vars, after_info, idx, agg, second, http, outer>>

\* An operation that does not answer from the cache: it joins the
\* operation in flight for its key, or calls the Aggregate itself.
Delegate(kind, key) ==
    LET n == store.started + 1
        role == Role(store.inflight, key)
    IN [store EXCEPT
           !.started = n,
           !.inflight = @ \cup {[n |-> n, key |-> key, kind |-> kind,
                                 role |-> role]},
           !.calls = IF role = "owner" THEN @ \cup {n} ELSE @]

\* A caller's query for a block it has seen.
StartQuery(q, b) ==
    /\ store # NotYet
    /\ store.started < MaxOps
    /\ b <= store.head
    /\ LET key == Key(q, b)
           hit == Lookup(store.config, store.entries, store.head, key)
       IN store' =
             IF hit.tag = "Some"
             THEN [store EXCEPT
                      !.started = @ + 1,
                      !.replies = @ \cup {[n |-> store.started + 1, key |-> key,
                                           from |-> "cache",
                                           value |-> Ok(hit.val)]}]
             ELSE Delegate("query", key)
    /\ UNCHANGED <<fetch_vars, info_vars, after_info, idx, agg, second, http, outer>>

\* The background refresh re-issues a query against the head.
StartRefresh(q) ==
    /\ store # NotYet
    /\ store.started < MaxOps
    /\ store.config.number_of_entries_to_auto_update > 0
    /\ store' = Delegate("refresh", Key(q, store.head))
    /\ UNCHANGED <<fetch_vars, info_vars, after_info, idx, agg, second, http, outer>>

\* The Aggregate answers the operation that called it: the result is
\* stored under the key, and the operation and those waiting for it get it.
\* The chain answers a repeated fetch at a numbered block as before.
Finish(op, outcome) ==
    /\ store # NotYet
    /\ op \in store.inflight
    /\ op.role = "owner"
    /\ outcome \in AggregateOutcomes
    /\ (outcome.tag = "Ok" /\ op.key \in DOMAIN store.truth)
          => outcome.val = store.truth[op.key]
    /\ LET waiters == {w \in store.inflight : w.key = op.key /\ w.role = "waiter"}
           put(f) == [k \in DOMAIN f \cup {op.key} |->
                         IF k = op.key THEN outcome.val ELSE f[k]]
           count(f) == [k \in DOMAIN f \cup {op.key} |->
                           IF k \in DOMAIN f
                           THEN f[k] + (IF k = op.key THEN 1 ELSE 0) ELSE 1]
       IN store' = [store EXCEPT
             !.inflight = @ \ ({op} \cup waiters),
             !.entries = IF outcome.tag = "Ok" THEN put(@) ELSE @,
             !.truth = IF outcome.tag = "Ok" THEN put(@) ELSE @,
             !.writes = IF outcome.tag = "Ok" THEN count(@) ELSE @,
             !.replies = @ \cup {[n |-> op.n, key |-> op.key,
                                  from |-> "aggregate", value |-> outcome]}
                           \cup {[n |-> w.n, key |-> w.key,
                                  from |-> "coalesced", value |-> outcome] :
                                    w \in waiters}]
    /\ UNCHANGED <<fetch_vars, info_vars, after_info, idx, agg, second, http, outer>>


InitStore == InitWith({"Weighted"}) /\ pool_id_deny_list = {}
NextStore ==
    \/ \E config \in StoreConfigs : NewCache(config)
    \/ NewBlock
    \/ \E q \in HotQueries, b \in ChainBlocks : StartQuery(q, b)
    \/ \E q \in HotQueries : StartRefresh(q)
    \/ \E n \in 1..MaxOps, outcome \in AggregateOutcomes :
          /\ store # NotYet
          /\ \E op \in {o \in store.inflight : o.n = n} : Finish(op, outcome)
SpecStore == InitStore /\ [][NextStore]_vars

\* The key has an entry and its block is recent enough, in this state.
CachedAndFresh(key) ==
    /\ key \in DOMAIN store.entries
    /\ store.head - key[2] <= store.config.maximum_recent_block_age

\* The step is one of the Cache and adds these replies / these calls of
\* the Aggregate.
NewReplies == store'.replies \ store.replies
NewCalls == store'.calls \ store.calls

\* C24: in every step of the Cache, a reply from the cache is for a key
\* that was cached and fresh, gives the cached result and comes with no
\* call of the Aggregate; a query calls the Aggregate only for a key that
\* was not cached and fresh; and the result the Aggregate gave is stored
\* under the query and the block.
C24_HitFromCacheMissDelegates ==
    [][(store # NotYet /\ store' # NotYet) =>
          /\ \A r \in NewReplies :
                r.from = "cache" =>
                   /\ CachedAndFresh(r.key)
                   /\ r.value = Ok(store.entries[r.key])
                   /\ NewCalls = {}
          /\ \A op \in store'.inflight \ store.inflight :
                (op.kind = "query" /\ op.n \in NewCalls) => ~CachedAndFresh(op.key)
          /\ store'.started > store.started =>
                \/ \E r \in NewReplies : r.from = "cache"
                \/ \E op \in store'.inflight \ store.inflight :
                      op.n = store'.started
          /\ \A r \in NewReplies :
                (r.from = "aggregate" /\ r.value.tag = "Ok") =>
                   /\ r.key \in DOMAIN store'.entries
                   /\ store'.entries[r.key] = r.value.val]_vars

\* The query of block 1 missed, was fetched and stored; the same query hit;
\* the query at block 2 missed again.
C24_Witness ==
    /\ store # NotYet
    /\ [n |-> 1, key |-> Key(1, 1), from |-> "aggregate", value |-> Ok("s1")]
          \in store.replies
    /\ [n |-> 2, key |-> Key(1, 1), from |-> "cache", value |-> Ok("s1")]
          \in store.replies
    /\ \E op \in store.inflight : op.n = 3 /\ op.key = Key(1, 2) /\ op.role = "owner"
    /\ store.calls = {1, 3}

\* The operations in flight for a key that write its entry.
Writers(key) == {op \in store.inflight : op.key = key /\ op.role = "owner"}
KeysInFlight == {op.key : op \in store.inflight}

\* C25: at no time do two operations in flight write the entry of one key:
\* of the operations for a key that are in flight together exactly one
\* calls the Aggregate and writes, the others wait for its result.
C25_OneWriterPerKey ==
    store # NotYet =>
        \A key \in KeysInFlight :
            /\ Cardinality(Writers(key)) = 1
            /\ \A op \in store.inflight :
                  op.key = key => (op.n \in store.calls <=> op \in Writers(key))

\* A caller's miss and the background refresh for the same key are in
\* flight together: the refresh waits.
C25_Witness ==
    /\ store # NotYet
    /\ \E a \in store.inflight, b \in store.inflight :
          /\ a.key = b.key
          /\ a.kind = "query" /\ a.role = "owner"
          /\ b.kind = "refresh" /\ b.role = "waiter"

(***************************************************************************)
(* A failed common read.                                                   *)
(***************************************************************************)
\* One of the three common reads of the pool failed.
CommonReadFailed(id) ==
    \/ PausedAnswer(id).tag = "Err"
    \/ SwapFeeAnswer(id).tag = "Err"
    \/ PoolTokensAnswer(id).tag = "Err"

\* C30: when the pause-state, the swap-fee or the pool-tokens read of a
\* pool failed, its fetch_pool future, once past the common state, is
\* resolved to an error -- not to Paused, Disabled or Active -- and has
\* not polled the factory's future, whatever the factory's own read gave.
C30_CommonReadFailureIsError ==
    \A id \in PoolIdSet :
        (PastCommon(id) /\ CommonReadFailed(id))
            => /\ pc[id] = "done"
               /\ IsError(status[id])
               /\ chan[id] = Error("()")

\* A stable pool that reports paused and whose swap-fee read failed while
\* its amplification read succeeded, beside a weighted pool whose
\* pool-tokens read failed: both resolved to the error.
C30_Witness ==
    /\ pc[P2] = "done"
    /\ PausedAnswer(P2) = Ok(TRUE) /\ SwapFeeAnswer(P2).tag = "Err"
    /\ OwnAnswer(P2).tag = "Ok"
    /\ IsError(status[P2])
    /\ pc[P1] = "done"
    /\ PausedAnswer(P1) = Ok(FALSE) /\ SwapFeeAnswer(P1).tag = "Ok"
    /\ PoolTokensAnswer(P1).tag = "Err"
    /\ IsError(status[P1])

(***************************************************************************)
(* POST /solver_competition: the handler of post_solver_competition::post  *)
(* for the requests its filter extracts (a JSON body within the limit,     *)
(* with or without an Authorization header).                               *)
(***************************************************************************)
MaxPosts == 3

UNAUTHORIZED == "401 Unauthorized"
CREATED == "201 Created"

AuthValues == {"auth", "wrong", ""}
\* warp::header::optional::<String>("Authorization")
AuthHeaders == {NoneOpt} \cup {SomeOpt(a) : a \in AuthValues}
\* Arguments::solver_competition_auth
ExpectedAuths == {NoneOpt, SomeOpt("auth"), SomeOpt("")}

\* Mutant: a request without the header is let through.
Unauthorized_MissingHeaderPasses(expected_auth, auth) ==
    expected_auth.tag = "Some" /\ auth.tag = "Some" /\ expected_auth # auth

\* if expected_auth.is_some() && expected_auth != auth
Unauthorized(expected_auth, auth) ==
    expected_auth.tag = "Some" /\ expected_auth # auth

\* super::error("Unauthorized", "") with the status
UnauthorizedReply == [status |-> UNAUTHORIZED, body |-> "Unauthorized"]

\* convert_json_response_with_status: the value as JSON with the status, or
\* the reply of the error.
convert_json_response_with_status(result, status_code) ==
    IF result.tag = "Ok" THEN [status |-> status_code, body |-> result.val]
    ELSE [status |-> "error", body |-> result.why]

\* What handler.save can return when the store holds n competitions.
SaveResults(n) == {Ok(n + 1), Error("database")}

\* The api is made with the configured value.
ServeApi(expected_auth) ==
    /\ http = NotYet
    /\ http' = [expected_auth |-> expected_auth, saved |-> 0, log |-> <<>>]
    /\ UNCHANGED <<fetch_vars, info_vars, after_info, idx, agg, store, second, outer>>

\* One request on the route: the handler's closure.
Post(auth, save_result) ==
    /\ http # NotYet
    /\ Len(http.log) < MaxPosts
    /\ save_result \in SaveResults(http.saved)
    /\ IF Unauthorized(http.expected_auth, auth)
       THEN http' = [http EXCEPT !.log =
                        Append(@, [auth |-> auth, save_calls |-> 0,
                                   result |-> NotYet,
                                   reply |-> UnauthorizedReply])]
       ELSE LET result == save_result
            IN http' = [http EXCEPT
                  !.saved = IF result.tag = "Ok" THEN @ + 1 ELSE @,
                  !.log = Append(@, [auth |-> auth, save_calls |-> 1,
                                     result |-> result,
                                     reply |-> convert_json_response_with_status(
                                                   result, CREATED)])]
    /\ UNCHANGED <<fetch_vars, info_vars, after_info, idx, agg, store, second, outer>>

InitApi == InitWith({"Weighted"}) /\ pool_id_deny_list = {}
NextApi ==
    \/ \E expected_auth \in ExpectedAuths : ServeApi(expected_auth)
    \/ \E auth \in AuthHeaders, n \in 0..MaxPosts :
          \E save_result \in SaveResults(n) : Post(auth, save_result)
SpecApi == InitApi /\ [][NextApi]_vars

\* The request must be refused: a value is configured and the header is
\* missing or different.
MustRefuse(entry) ==
    /\ http.expected_auth # NoneOpt
    /\ entry.auth = NoneOpt \/ entry.auth.val # http.expected_auth.val

RefusedUnsaved(entry) ==
    entry.reply.status = UNAUTHORIZED /\ entry.save_calls = 0

DropShared(id) ==
    /\ phase \in {"queueing", "executed"}
    /\ pc[id] = "created"
    /\ registry[id].factory = "Mock"
    /\ chan[id] = Empty
    /\ chan' = [chan EXCEPT ![id] = Closed]
    /\ UNCHANGED others
    /\ UNCHANGED <<registry, pool_id_deny_list, phase, token_pairs, at_block,
                   pool_ids, batch, results, pc, common_res, status, fetched>>

\* The caller drops the fetch before it resolved: the futures of its pools
\* are dropped with it, the calls already made are left to complete.
Abandon ==
    /\ phase \in {"queueing", "executed"}
    /\ phase' = "abandoned"
    /\ pc' = [id \in PoolIdSet |-> IF pc[id] \in {"idle", "done"} THEN pc[id]
                                  ELSE "dropped"]
    /\ chan' = [id \in PoolIdSet |-> IF pc[id] \in {"created", "common"}
                                    THEN Closed ELSE chan[id]]
    /\ UNCHANGED others
    /\ UNCHANGED <<registry, pool_id_deny_list, token_pairs, at_block,
                   pool_ids, batch, results, common_res, status, fetched>>

InitDrop == InitWith({"Mock"})
NextDrop ==
    \/ \E id \in PoolIdSet : DropShared(id)
    \/ Abandon
    \/ Next
SpecDrop == InitDrop /\ [][NextDrop]_vars

\* The reads queued by the fetch_pool calls made so far.
RECURSIVE ReadsQueuedFor(_)
ReadsQueuedFor(ids) ==
    IF ids = {} THEN EmptyBag
    ELSE LET id == CHOOSE x \in ids : TRUE
         IN SeqToBag(FetchPoolReads(registry[id], at_block))
               (+) ReadsQueuedFor(ids \ {id})

\* What the three reads of the pool resolve the common state to.
CommonStateFromReads(id) ==
    CommonPoolState(registry[id].common, PausedAnswer(id), SwapFeeAnswer(id),
                    PoolTokensAnswer(id))

\* C27: a shared future that is dropped before the result future publishes
\* does no harm: the result future resolves to what its three reads give
\* and nothing panics, so an unpaused pool still becomes Active; and with
\* futures dropped or the whole fetch abandoned, the batch holds exactly
\* the reads the fetch_pool calls queued and the index is as it was.
C27_DropLeavesNothingInconsistent ==
    /\ \A id \in PoolIdSet :
          /\ pc[id] # "panicked"
          /\ (chan[id] = Closed /\ pc[id] \in {"common", "kind", "done"})
                => common_res[id] = CommonStateFromReads(id)
          /\ (chan[id] = Closed /\ pc[id] = "done"
              /\ common_res[id].tag = "Ok" /\ ~common_res[id].val.paused)
                => IsActive(status[id])
    /\ batch = ReadsQueuedFor({id \in PoolIdSet : pc[id] # "idle"})
    /\ registry \in Registries({"Mock"})

\* The factory of P1 dropped the shared future, the common state of P1
\* then resolved to an unpaused state and P1 became Active.
C27_Witness ==
    /\ chan[P1] = Closed
    /\ pc[P1] = "done"
    /\ common_res[P1].tag = "Ok"
    /\ IsActive(status[P1])
    /\ phase = "done"

(***************************************************************************)
(* Two fetches.  A second fetch runs beside the first on the same          *)
(* KoyoPoolFetcher: fetch takes &self and shares the registries' index and *)
(* the deny list, which no fetch writes.  The chain holds a state for      *)
(* every pool at every block; a call is answered at the block it names.    *)
(* The first fetch takes the steps of the fetch cycle above; the second    *)
(* takes one step per suspension point of fetch_pools.                     *)
(***************************************************************************)
\* The token pairs asked for: those of P1, those of P2, those of both.
PairSets == {{<<1, 2>>}, {<<2, 3>>}, {<<1, 2>>, <<2, 3>>}}

\* What the chain may hold for a pool at one block: the weighted pool is
\* unpaused, paused or unreadable, the stable pool gives its amplification
\* parameter or fails to.
PoolAtBlock(info) ==
    {s \in ChainStates(info) :
        /\ s.swap_fee = Ok(3)
        /\ s.tokens = Ok([tokens |-> info.common.tokens, balances |-> <<5, 7>>])
        /\ info.factory = "Stable" =>
              /\ s.paused = Ok(FALSE)
              /\ s.own \in {Ok([factor |-> 200, precision |-> 1000]), Error("rpc")}}
\* The chain: block -> pool id -> state.
Worlds(reg) ==
    [Blocks -> {[id \in PoolIdSet |-> IF id = P1 THEN a ELSE b] :
                    a \in PoolAtBlock(reg[P1]), b \in PoolAtBlock(reg[P2])}]

\* Mutant: the transport answers every call at the block of the first fetch.
ExecuteAll_AtOneBlock(world, calls) ==
    [c \in BagToSet(calls) |-> ChainRead(world[at_block], c)]

\* batch.execute_all: every call of the batch is answered at its block.
ExecuteAll(world, calls) ==
    [c \in BagToSet(calls) |-> ChainRead(world[c.block], c)]

\* pools_by_id: fetch_pool is called for every id, on the batch of the query.
RECURSIVE QueueAll(_, _, _)
QueueAll(reg, ids, block) ==
    IF ids = {} THEN EmptyBag
    ELSE LET id == CHOOSE x \in ids : TRUE
         IN SeqToBag(FetchPoolReads(reg[id], block))
               (+) QueueAll(reg, ids \ {id}, block)

\* The output of the future fetch_pool returned, from the answers to the
\* calls it queued.
FetchPoolStatus(info, block, answers) ==
    LET answer(c) == IF c \in DOMAIN answers THEN answers[c] ELSE Pending
        reads == CommonReads(info.common, block)
        common == CommonPoolState(info.common, answer(reads[1]),
                                  answer(reads[2]), answer(reads[3]))
        own_reads == KindReads(info, block)
        own == IF own_reads = <<>> THEN Error("none") ELSE answer(own_reads[1])
        gate == CommonGate(common)
    IN CASE gate = "err" -> common
         [] gate = "paused" -> Ok(Paused)
         [] OTHER -> FinalStatus(info,
                        PoolStateOf(info, SharedRecv(Published(common)).val, own))

\* The chain at every block is fixed before the fetches begin.
ChooseChain(world) ==
    /\ second = NotYet
    /\ phase = "idle"
    /\ second' = [world |-> world, phase |-> "idle", began |-> "idle",
                  token_pairs |-> {}, at_block |-> Latest, pool_ids |-> {},
                  batch |-> EmptyBag, results |-> <<>>, fetched |-> NotYet]
    /\ UNCHANGED <<fetch_vars, info_vars, after_info, idx, agg, store, http, outer>>

\* The batch of the first fetch is executed on that chain.
ExecuteOnChain ==
    /\ phase = "queueing"
    /\ \A id \in pool_ids : pc[id] = "created"
    /\ results' = ExecuteAll(second.world, batch)
    /\ phase' = "executed"
    /\ UNCHANGED others
    /\ UNCHANGED <<registry, pool_id_deny_list, token_pairs, at_block,
                   pool_ids, batch, pc, chan, common_res, status, fetched>>

\* The second fetch, for another block than the first: fetch_pools up to
\* the execution of its batch, a batch of its own which its fetch_pool
\* calls fill.
FetchSecond(pairs, block) ==
    /\ second.phase = "idle"
    /\ phase = "idle" \/ at_block # block
    /\ LET ids == RemoveDenied(PoolIdsForTokenPairs(registry, pairs),
                               pool_id_deny_list)
       IN second' = [second EXCEPT !.phase = "queued", !.began = phase,
                                   !.token_pairs = pairs, !.at_block = block,
                                   !.pool_ids = ids,
                                   !.batch = QueueAll(registry, ids, block)]
    /\ UNCHANGED <<fetch_vars, info_vars, after_info, idx, agg, store, http, outer>>

\* The batch of the second fetch is executed.
ExecuteSecond ==
    /\ second.phase = "queued"
    /\ second' = [second EXCEPT !.phase = "executed",
                     !.results = ExecuteAll(second.world, second.batch)]
    /\ UNCHANGED <<fetch_vars, info_vars, after_info, idx, agg, store, http, outer>>

\* The futures of the second fetch resolve, the Active pools are kept and
\* split by kind.
CollectSecond ==
    /\ second.phase = "executed"
    /\ LET st == [id \in second.pool_ids |->
                    FetchPoolStatus(registry[id], second.at_block, second.results)]
       IN second' = [second EXCEPT !.phase = "done",
                        !.fetched = SplitPools(ActivePools(
                                        SortedKeysOfIds(second.pool_ids), st))]
    /\ UNCHANGED <<fetch_vars, info_vars, after_info, idx, agg, store, http, outer>>

InitTwo == InitWith({"Weighted"})
NextTwo ==
    \/ \E world \in Worlds(registry) : ChooseChain(world)
    \/ \E pairs \in PairSets, block \in Blocks :
          /\ second # NotYet
          /\ second.phase = "idle" \/ second.at_block # block
          /\ Fetch(pairs, block)
    \/ \E id \in PoolIdSet : second # NotYet /\ CallFetchPool(id)
    \/ second # NotYet /\ ExecuteOnChain
    \/ \E id \in PoolIdSet : second # NotYet /\ PollCommon(id)
    \/ \E id \in PoolIdSet : second # NotYet /\ CheckCommon(id)
    \/ \E id \in PoolIdSet : second # NotYet /\ PollKind(id)
    \/ second # NotYet /\ Collect
    \/ \E pairs \in PairSets, block \in Blocks :
          second # NotYet /\ FetchSecond(pairs, block)
    \/ second # NotYet /\ ExecuteSecond
    \/ second # NotYet /\ CollectSecond
SpecTwo == InitTwo /\ [][NextTwo]_vars

\* What fetch returns when it runs alone: the pools of the pairs without
\* the denied ones, each from the state the chain holds for it at the block.
FetchAlone(reg, deny_list, pairs, block, chain) ==
    LET ids == {id \in PoolIdsForTokenPairs(reg, pairs) : id \notin deny_list}
        answers(id) == [c \in Range(FetchPoolReads(reg[id], block)) |->
                            ChainRead(chain, c)]
        st == [id \in ids |-> FetchPoolStatus(reg[id], block, answers(id))]
    IN SplitPools(ActivePools(SortedKeysOfIds(ids), st))

\* C26: two fetches for different blocks, their steps interleaved in any
\* order, each return what they would return alone: the pools of their own
\* token pairs in the state the chain holds at their own block.
C26_ConcurrentFetchesAsAlone ==
    second # NotYet =>
       /\ phase = "done" =>
             fetched = FetchAlone(registry, pool_id_deny_list, token_pairs,
                                  at_block, second.world[at_block])
       /\ second.phase = "done" =>
             second.fetched = FetchAlone(registry, pool_id_deny_list,
                                         second.token_pairs, second.at_block,
                                         second.world[second.at_block])
       /\ (phase # "idle" /\ second.phase # "idle") => at_block # second.at_block

\* The second fetch began while the first was queueing its reads; the first
\* found P1 at the latest block, the second found nothing at block 1, where
\* P1 is paused.
C26_Witness ==
    /\ second # NotYet
    /\ phase = "done" /\ second.phase = "done"
    /\ second.began = "queueing"
    /\ at_block = Latest /\ second.at_block = Number(1)
    /\ token_pairs = {<<1, 2>>} /\ second.token_pairs = {<<1, 2>>}
    /\ Len(fetched.weighted_pools) = 1
    /\ second.fetched.weighted_pools = <<>>
    /\ second.world[Number(1)][P1].paused = Ok(TRUE)


(***************************************************************************)
(* The three factories under fetch_pool.                                   *)
(***************************************************************************)
\* The outcomes of a resolved fetch_pool future.
Outcome(s) ==
    CASE s.tag = "Err" -> "error"
      [] s.tag = "Ok" -> s.val.tag
      [] OTHER -> s.tag

\* C31: with the weighted, oracle-weighted and stable factories no pool is
\* ever Disabled: a resolved fetch_pool future gives Paused, Active or an
\* error.
C31_NeverDisabled ==
    /\ registry[P1].factory \in {"Weighted", "Oracle"}
    /\ registry[P2].factory = "Stable"
    /\ \A id \in PoolIdSet :
          /\ status[id] # Ok(Disabled)
          /\ pc[id] = "done" => Outcome(status[id]) \in {"Paused", "Active", "error"}
\* The oracle-weighted pool is Active beside the stable pool, whose
\* amplification parameter came with precision zero and which resolved to
\* the error of the conversion.
C31_Witness ==
    /\ registry[P1].factory = "Oracle"
    /\ pc[P1] = "done" /\ IsActive(status[P1])
    /\ pc[P2] = "done" /\ ResolvedUnpaused(P2)
    /\ OwnAnswer(P2) = Ok([factor |-> 200, precision |-> 0])
    /\ status[P2] = Error("zero precision not allowed")


\* C32: when the common-state read of a pool succeeds, the token map of the
\* state has exactly one entry for each token of the recorded token list,
\* holding the balance and the scaling exponent at the index of that token,
\* whatever the length of the balances array that came with the matching
\* token list.
C32_TokenMapCoversTokens ==
    \A id \in PoolIdSet :
        (pc[id] \in {"common", "kind", "done", "panicked"}
         /\ common_res[id].tag = "Ok") =>
            LET pool == registry[id].common
                tokens == common_res[id].val.tokens
                balances == PoolTokensAnswer(id).val.balances
            IN /\ DOMAIN tokens = Range(pool.tokens)
               /\ \A i \in 1..Len(pool.tokens) :
                     /\ i <= Len(balances)
                     /\ tokens[pool.tokens[i]] =
                           [balance |-> balances[i],
                            scaling_exponent |-> pool.scaling_exponents[i]]


(***************************************************************************)
(* Bootstrap and the records of the discovery.                             *)
(***************************************************************************)
\* The kind of the configured factory a record belongs to, if any.
KindsOf(d) == {kind \in agg.factories : d.factory = FactoryAddress(kind)}
\* A record that the factory of the kind cannot convert: fewer than two
\* tokens, a token of more than 18 decimals, a type tag of another kind, or
\* a weighted pool with a token without weight.
Unconvertible(kind, pool) ==
    \/ Len(pool.tokens) < 2
    \/ \E i \in 1..Len(pool.tokens) : pool.tokens[i].decimals > 18
    \/ pool.pool_type # (IF kind = "Stable" THEN "Stable" ELSE "Weighted")
    \/ kind # "Stable" /\ \E i \in 1..Len(pool.tokens) :
                             pool.tokens[i].weight.tag = "None"
\* The records of the discovery that a configured factory cannot convert.
BadRecords ==
    {d \in Range(agg.input.pools) : \E kind \in KindsOf(d) :
        Unconvertible(kind, d.pool)}

\* C33: when one record of a configured factory cannot be converted,
\* creating the pool fetcher fails as a whole: there is no Aggregate and no
\* registry of the valid records.
C33_BootstrapAllOrNothing ==
    (agg # NotYet /\ BadRecords # {}) =>
        /\ agg.tag = "Err"
        /\ "registries" \notin DOMAIN agg
\* The discovery gave the valid weighted pool P1 and a weighted pool with a
\* token without weight: bootstrap failed on the second.
C33_Witness ==
    /\ agg # NotYet
    /\ agg.factories = {"Weighted", "Stable"}
    /\ Len(agg.input.pools) = 2
    /\ agg.input.pools[1].pool.id = P1
    /\ ~Unconvertible("Weighted", agg.input.pools[1].pool)
    /\ agg.input.pools[2] \in BadRecords
    /\ agg.tag = "Err" /\ agg.why = "missing weights for pool"

\* The records of no configured factory, and those of the factory of a kind.
UnknownRecords == {i \in DOMAIN agg.input.pools : KindsOf(agg.input.pools[i]) = {}}
RecordsOf(kind) ==
    {i \in DOMAIN agg.input.pools :
        agg.input.pools[i].factory = FactoryAddress(kind)}

\* C34: records of a factory address that is not configured enter no
\* registry and do not fail bootstrap, which warns about them; each record
\* of a configured factory is in the registry of that factory and in no
\* other.
C34_UnknownFactoryIgnored ==
    agg # NotYet =>
        /\ BadRecords = {} => agg.tag = "Ok"
        /\ agg.tag = "Ok" =>
              /\ DOMAIN agg.registries = agg.factories
              /\ \A kind \in agg.factories :
                    /\ RegistryIds(agg.registries[kind]) =
                          {agg.input.pools[i].pool.id : i \in RecordsOf(kind)}
                    /\ Cardinality(agg.registries[kind].pools) =
                          Cardinality(RecordsOf(kind))
              /\ \A i \in UnknownRecords : \A kind \in agg.factories :
                    agg.input.pools[i].pool.id \notin
                        RegistryIds(agg.registries[kind])
              /\ agg.warned = IF UnknownRecords = {} THEN NoneOpt
                              ELSE SomeOpt(Cardinality(UnknownRecords))
\* The discovery gave the weighted pool P1 and a pool of an unknown
\* factory: bootstrap succeeded, warned about one pool, and P1 is the only
\* pool of any registry.
C34_Witness ==
    /\ agg # NotYet /\ agg.tag = "Ok"
    /\ agg.factories = FactoryKinds
    /\ Len(agg.input.pools) = 2
    /\ agg.input.pools[1].factory = UnknownFactory
    /\ agg.input.pools[2].pool.id = P1
    /\ agg.warned = SomeOpt(1)
    /\ RegistryIds(agg.registries["Weighted"]) = {P1}
    /\ RegistryIds(agg.registries["Oracle"]) = {}
    /\ RegistryIds(agg.registries["Stable"]) = {}


(***************************************************************************)
(* The split of fetch.                                                     *)
(***************************************************************************)
\* The pools pools_by_id returned, and the places of a pool in a list.
ReturnedPools == {status[id].val.pool : id \in {i \in pool_ids : IsActive(status[i])}}
PlacesIn(list, id) == {i \in 1..Len(list) : list[i].common.id = id}

\* C35: every pool pools_by_id returned is in exactly one of the two lists,
\* the one of its kind, with its id, swap fee and reserves (and, for a
\* stable pool, its amplification parameter), its address being the head
\* of the id and paused being false; the lists hold no other pool.
C35_SplitByKind ==
    phase = "done" =>
        /\ Len(fetched.weighted_pools) + Len(fetched.stable_pools)
              = Cardinality(ReturnedPools)
        /\ \A pool \in ReturnedPools :
              LET own == IF pool.kind.tag = "Weighted" THEN fetched.weighted_pools
                         ELSE fetched.stable_pools
                  other == IF pool.kind.tag = "Weighted" THEN fetched.stable_pools
                           ELSE fetched.weighted_pools
              IN /\ PlacesIn(other, pool.id) = {}
                 /\ Cardinality(PlacesIn(own, pool.id)) = 1
                 /\ \A i \in PlacesIn(own, pool.id) :
                       /\ own[i].common = [id |-> pool.id, address |-> pool.id[1],
                                           swap_fee |-> pool.kind.state.swap_fee,
                                           paused |-> FALSE]
                       /\ own[i].reserves = pool.kind.state.tokens
                       /\ pool.kind.tag = "Stable" =>
                             own[i].amplification_parameter =
                                 pool.kind.state.amplification_parameter
        /\ \A i \in 1..Len(fetched.weighted_pools) :
              "amplification_parameter" \notin DOMAIN fetched.weighted_pools[i]
\* Both pools were returned: the oracle-weighted P1 is the one weighted
\* pool and P2 the one stable pool.
C35_Witness ==
    /\ phase = "done"
    /\ registry[P1].factory = "Oracle"
    /\ Cardinality(ReturnedPools) = 2
    /\ Len(fetched.weighted_pools) = 1 /\ Len(fetched.stable_pools) = 1
    /\ fetched.weighted_pools[1].common.id = P1
    /\ fetched.weighted_pools[1].common.address = 11
    /\ fetched.stable_pools[1].common.id = P2
    /\ fetched.stable_pools[1].amplification_parameter =
          [factor |-> 200, precision |-> 1000]


(***************************************************************************)
(* The deny list.  The pool fetcher is made, then fetch and                *)
(* run_maintenance are called on it in any order.                          *)
(***************************************************************************)
\* The heads at which the driver calls run_maintenance beside a fetch.
MaxMaintained == 1

InitDeny == InitWith({"Weighted"})
NextDeny ==
    \/ \E args \in {a \in Arguments :
                       /\ a.pool_cache_maximum_retries = 0
                       /\ a.pool_cache_delay_between_retries_seconds = 1} :
          phase = "idle" /\ NewFetcher(CacheConfig(args))
    \/ maint # NotYet /\ maint.head < MaxMaintained /\ NewHead(<<>>)
    \/ Next
SpecDeny == InitDeny /\ [][NextDeny]_vars

\* The pools a queued call reads.
PoolsRead(c) ==
    {id \in PoolIdSet : c.to = id[1] \/ (c.to = VaultAddress /\ c.arg = id)}
\* What fetch_pools hands to pools_by_id: no deny-listed id, every other id
\* of the token pairs; and no queued read is one of a deny-listed pool.
DeniedNeverPassed ==
    /\ phase # "idle" =>
          /\ pool_ids \cap pool_id_deny_list = {}
          /\ \A id \in PoolIdsForTokenPairs(registry, token_pairs) :
                id \notin pool_id_deny_list => id \in pool_ids
          /\ pool_ids \subseteq PoolIdsForTokenPairs(registry, token_pairs)
    /\ \A c \in BagToSet(batch) : PoolsRead(c) \cap pool_id_deny_list = {}
    /\ \A id \in pool_id_deny_list : pc[id] = "idle"

\* C36: fetch passes to pools_by_id exactly the ids of the token pairs that
\* are not deny-listed, so no read is queued for a deny-listed pool; and no
\* step of fetch or of run_maintenance changes the deny list.
C36_DenyListAppliedAndKept ==
    /\ []DeniedNeverPassed
    /\ [][pool_id_deny_list' = pool_id_deny_list]_vars
\* With P2 deny-listed and the pairs of both pools asked for, P1 alone was
\* read and returned, a maintenance run having come in between.
C36_Witness ==
    /\ phase = "done"
    /\ pool_id_deny_list = {P2}
    /\ PoolIdsForTokenPairs(registry, token_pairs) = PoolIdSet
    /\ pool_ids = {P1}
    /\ BagCardinality(batch) = 3
    /\ Len(fetched.weighted_pools) = 1
    /\ maint # NotYet /\ maint.head >= 1


(***************************************************************************)
(* sources.rs: the PoolAggregator over the pool fetchers of the            *)
(* Uniswap-like sources.                                                   *)
(***************************************************************************)
MaxFetchers == 3

\* What the fetch of pool fetcher i gives: some of its pools, or an error.
UniPool(i, k) == [source |-> i, pair |-> k]
FetcherResults(i) ==
    {Ok(<<>>), Ok(<<UniPool(i, 1)>>), Ok(<<UniPool(i, 1), UniPool(i, 2)>>),
     Error("rpc")}

\* Mutant: the fetchers that fail are left out.
try_join_all_KeepSucceeding(futures) ==
    LET ok == SelectSeq(futures, LAMBDA r : r.tag = "Ok")
    IN {Ok([i \in 1..Len(ok) |-> ok[i].val])}

\* futures::future::try_join_all(..).await: the outputs in the order of the
\* futures, or the error of a future that failed.
try_join_all(futures) ==
    LET failed == {i \in 1..Len(futures) : futures[i].tag = "Err"}
    IN IF failed # {} THEN {futures[i] : i \in failed}
       ELSE {Ok([i \in 1..Len(futures) |-> futures[i].val])}

\* results.into_iter().flatten().collect()
RECURSIVE Flatten(_)
Flatten(lists) ==
    IF lists = <<>> THEN <<>> ELSE Head(lists) \o Flatten(Tail(lists))

\* A PoolAggregator over n pool fetchers.
NewPoolAggregator(n) ==
    /\ pag = NotYet
    /\ pag' = [pool_fetchers |-> n, call |-> NoneOpt]
    /\ UNCHANGED <<fetch_vars, info_vars, after_info, later, subsidy>>

\* PoolAggregator::fetch: every pool fetcher is asked with a clone of the
\* token pairs and the block; `answers` is what they give.
PoolAggregatorFetch(pairs, block, answers) ==
    /\ pag # NotYet
    /\ pag.call = NoneOpt
    /\ Len(answers) = pag.pool_fetchers
    /\ \E joined \in try_join_all(answers) :
          pag' = [pag EXCEPT !.call = SomeOpt(
                    [token_pairs |-> pairs, at_block |-> block,
                     asked |-> [i \in 1..pag.pool_fetchers |->
                                   [token_pairs |-> pairs, at_block |-> block]],
                     answers |-> answers,
                     result |-> IF joined.tag = "Err" THEN joined
                                ELSE Ok(Flatten(joined.val))])]
    /\ UNCHANGED <<fetch_vars, info_vars, after_info, later, subsidy>>

InitSources == InitWith({"Weighted"}) /\ pool_id_deny_list = {}
NextSources ==
    \/ \E n \in 0..MaxFetchers : NewPoolAggregator(n)
    \/ \E pairs \in PairSets, block \in Blocks :
          \E n \in 0..MaxFetchers :
             \E answers \in [1..n -> UNION {FetcherResults(i) : i \in 1..n}] :
                /\ \A i \in 1..n : answers[i] \in FetcherResults(i)
                /\ PoolAggregatorFetch(pairs, block, answers)
SpecSources == InitSources /\ [][NextSources]_vars

\* The pools of the fetchers 1..n that answered with pools, in the order of
\* the fetchers.
RECURSIVE PoolsUpTo(_, _)
PoolsUpTo(answers, n) ==
    IF n = 0 THEN <<>>
    ELSE PoolsUpTo(answers, n - 1)
            \o (IF answers[n].tag = "Ok" THEN answers[n].val ELSE <<>>)

\* C37: PoolAggregator.fetch gives an error when one of its pool fetchers
\* does, the error of a failing one; otherwise it gives the pools of all
\* the fetchers, one fetcher after the other; every fetcher was asked with
\* the token pairs and the block of the call.
C37_AnyFailureFailsAll ==
    (pag # NotYet /\ pag.call # NoneOpt) =>
        LET c == pag.call.val
            failed == {i \in 1..pag.pool_fetchers : c.answers[i].tag = "Err"}
        IN /\ DOMAIN c.asked = 1..pag.pool_fetchers
           /\ \A i \in 1..pag.pool_fetchers :
                 c.asked[i] = [token_pairs |-> c.token_pairs,
                               at_block |-> c.at_block]
           /\ failed # {} => \E i \in failed : c.result = c.answers[i]
           /\ failed = {} =>
                 c.result = Ok(PoolsUpTo(c.answers, pag.pool_fetchers))
\* Of three fetchers the second failed, the others gave pools: the call
\* failed.
C37_Witness ==
    /\ pag # NotYet /\ pag.call # NoneOpt
    /\ pag.pool_fetchers = 3
    /\ pag.call.val.answers[1] = Ok(<<UniPool(1, 1)>>)
    /\ pag.call.val.answers[2] = Error("rpc")
    /\ pag.call.val.answers[3] = Ok(<<UniPool(3, 1), UniPool(3, 2)>>)
    /\ pag.call.val.result = Error("rpc")

(***************************************************************************)
(* kyo_token.rs: the fee subsidy of a KYO holder.  KoyoSubsidy keeps the    *)
(* factor of a user in a TimedSizedCache; a factor is written as the       *)
(* decimal text of the f64.  The cache has room for CACHE_SIZE users,      *)
(* which the users of the model never fill.                                *)
(***************************************************************************)
CACHE_SIZE == 10000
CACHE_LIFESPAN == 3600
MaxNow == 5400
TickSeconds == 1800
Users == {1, 2}
Tasks == {1, 2}

U256MAX == [i \in 1..U256Limbs |-> LimbBase - 1]

\* The limbs of x + y + carry, followed by the carry out of the last limb.
RECURSIVE AddLimbs(_, _, _)
AddLimbs(x, y, carry) ==
    IF x = <<>> THEN <<carry>>
    ELSE LET s == Head(x) + Head(y) + carry
         IN <<s % LimbBase>> \o AddLimbs(Tail(x), Tail(y), s \div LimbBase)

\* U256::saturating_add
saturating_add(x, y) ==
    LET r == AddLimbs(x, y, 0)
    IN IF r[U256Limbs + 1] # 0 THEN U256MAX ELSE SubSeq(r, 1, U256Limbs)

\* x <= y of two U256
U256Le(x, y) ==
    \/ x = y
    \/ \E i \in 1..U256Limbs :
          x[i] < y[i] /\ \A j \in (i + 1)..U256Limbs : x[j] = y[j]

\* SubsidyTiers: the factor of every threshold.
TierConfigs ==
    {{},
     {[threshold |-> U256From(1), factor |-> "0.5"],
      [threshold |-> U256From(3), factor |-> "0.1"]}}

\* What balanceOf of the token or of the voting escrow answers.
BalanceAnswers ==
    {Ok(U256From(0)), Ok(U256From(1)), Ok(U256MAX), Error("rpc")}

\* futures::future::try_join(a, b).await: both outputs, or the error of a
\* future that failed.
try_join(a, b) ==
    IF a.tag = "Err" \/ b.tag = "Err"
    THEN {r \in {a, b} : r.tag = "Err"}
    ELSE {Ok(<<a.val, b.val>>)}

\* Mutant: a user whose balances cannot be read pays the full fee.
subsidy_factor_uncached_DefaultOnError(subsidy_tiers, balance_of, vebalance_of) ==
    {IF joined.tag = "Err" THEN Ok("1.0")
     ELSE LET combined == saturating_add(joined.val[1], joined.val[2])
              below == {tier \in subsidy_tiers : U256Le(tier.threshold, combined)}
          IN IF below = {} THEN Ok("1.0")
             ELSE Ok((CHOOSE tier \in below :
                        \A o \in below : U256Le(o.threshold, tier.threshold)).factor)
     : joined \in try_join(balance_of, vebalance_of)}

\* subsidy_factor_uncached: the factor of the greatest threshold that the
\* combined balance reaches, 1.0 without one; a failed read is propagated.
subsidy_factor_uncached(subsidy_tiers, balance_of, vebalance_of) ==
    {IF joined.tag = "Err" THEN joined
     ELSE LET combined == saturating_add(joined.val[1], joined.val[2])
              below == {tier \in subsidy_tiers : U256Le(tier.threshold, combined)}
          IN IF below = {} THEN Ok("1.0")
             ELSE Ok((CHOOSE tier \in below :
                        \A o \in below : U256Le(o.threshold, tier.threshold)).factor)
     : joined \in try_join(balance_of, vebalance_of)}

\* An entry of the cache is live while less than the lifespan has elapsed.
Live(entries, key, now) ==
    /\ entries[key].tag = "Some"
    /\ now - entries[key].val.at < CACHE_LIFESPAN

\* TimedSizedCache::cache_get without refresh: the value of a live entry;
\* an expired entry is removed.
cache_get(entries, key, now) ==
    IF Live(entries, key, now)
    THEN [value |-> SomeOpt(entries[key].val.factor), kept |-> entries]
    ELSE [value |-> NoneOpt, kept |-> [entries EXCEPT ![key] = NoneOpt]]

\* TimedSizedCache::cache_set
cache_set(entries, key, val, now) ==
    [entries EXCEPT ![key] = SomeOpt([factor |-> val, at |-> now])]

\* KoyoSubsidy::new
NewKoyoSubsidy(subsidy_tiers) ==
    /\ subsidy = NotYet
    /\ subsidy' = [subsidy_tiers |-> subsidy_tiers,
                   cache |-> [u \in Users |-> NoneOpt],
                   now |-> 0,
                   task |-> [t \in Tasks |-> NoneOpt]]
    /\ UNCHANGED <<fetch_vars, info_vars, after_info, later, pag>>

\* kyo_subsidy_factor up to its await: the cache is asked under the lock.
\* A hit returns; a miss sends the two balance reads.
KyoSubsidyFactor(t, user) ==
    /\ subsidy # NotYet
    /\ subsidy.task[t] = NoneOpt
    /\ LET got == cache_get(subsidy.cache, user, subsidy.now)
       IN subsidy' =
            [subsidy EXCEPT
               !.cache = got.kept,
               !.task[t] =
                  IF got.value.tag = "Some"
                  THEN SomeOpt([user |-> user, stage |-> "Done",
                                answers |-> NoneOpt,
                                result |-> SomeOpt(Ok(got.value.val))])
                  ELSE SomeOpt([user |-> user, stage |-> "Reading",
                                answers |-> NoneOpt, result |-> NoneOpt])]
    /\ UNCHANGED <<fetch_vars, info_vars, after_info, later, pag>>

\* kyo_subsidy_factor after its await: an error of the reads is returned
\* with ?, a factor is stored under the lock and returned.
BalancesRead(t, balance_of, vebalance_of) ==
    /\ subsidy # NotYet
    /\ subsidy.task[t] # NoneOpt
    /\ subsidy.task[t].val.stage = "Reading"
    /\ \E subsidy_factor \in subsidy_factor_uncached(subsidy.subsidy_tiers,
                                                     balance_of, vebalance_of) :
          subsidy' =
            [subsidy EXCEPT
               !.cache = IF subsidy_factor.tag = "Err" THEN @
                         ELSE cache_set(@, subsidy.task[t].val.user,
                                        subsidy_factor.val, subsidy.now),
               !.task[t] = SomeOpt([@.val EXCEPT
                              !.stage = "Done",
                              !.answers = SomeOpt(<<balance_of, vebalance_of>>),
                              !.result = SomeOpt(subsidy_factor)])]
    /\ UNCHANGED <<fetch_vars, info_vars, after_info, later, pag>>

\* The caller has its answer; the task may call again.
SubsidyReturned(t) ==
    /\ subsidy # NotYet
    /\ subsidy.task[t] # NoneOpt
    /\ subsidy.task[t].val.stage = "Done"
    /\ subsidy' = [subsidy EXCEPT !.task[t] = NoneOpt]
    /\ UNCHANGED <<fetch_vars, info_vars, after_info, later, pag>>

\* Time passes.
SubsidyTick ==
    /\ subsidy # NotYet
    /\ subsidy.now + TickSeconds <= MaxNow
    /\ subsidy' = [subsidy EXCEPT !.now = @ + TickSeconds]
    /\ UNCHANGED <<fetch_vars, info_vars, after_info, later, pag>>

InitSubsidy == InitWith({"Weighted"}) /\ pool_id_deny_list = {}
NextSubsidy ==
    \/ \E subsidy_tiers \in TierConfigs : NewKoyoSubsidy(subsidy_tiers)
    \/ \E t \in Tasks, user \in Users : KyoSubsidyFactor(t, user)
    \/ \E t \in Tasks, b \in BalanceAnswers, v \in BalanceAnswers :
          BalancesRead(t, b, v)
    \/ \E t \in Tasks : SubsidyReturned(t)
    \/ SubsidyTick
SpecSubsidy == InitSubsidy /\ [][NextSubsidy]_vars

\* Task t goes from one position to another in this step.
SubsidyCalled(t) ==
    subsidy.task[t] = NoneOpt /\ subsidy'.task[t] # NoneOpt
SubsidyAnswered(t) ==
    /\ subsidy.task[t] # NoneOpt /\ subsidy.task[t].val.stage = "Reading"
    /\ subsidy'.task[t] # NoneOpt /\ subsidy'.task[t].val.stage = "Done"
ReadErrors(answers) == {r \in {answers[1], answers[2]} : r.tag = "Err"}

HitAnsweredFromCache ==
    \A t \in Tasks :
       (SubsidyCalled(t) /\ Live(subsidy.cache, subsidy'.task[t].val.user, subsidy.now)) =>
          /\ subsidy'.task[t].val.stage = "Done"
          /\ subsidy'.task[t].val.answers = NoneOpt
          /\ subsidy'.task[t].val.result =
                SomeOpt(Ok(subsidy.cache[subsidy'.task[t].val.user].val.factor))
          /\ subsidy'.cache = subsidy.cache
FailedReadReturnsError ==
    \A t \in Tasks :
       (SubsidyAnswered(t) /\ ReadErrors(subsidy'.task[t].val.answers.val) # {}) =>
          /\ subsidy'.task[t].val.result.val \in
                ReadErrors(subsidy'.task[t].val.answers.val)
          /\ subsidy'.cache = subsidy.cache
StoredOnlyAfterSuccess ==
    \A u \in Users :
       (subsidy'.cache[u] # subsidy.cache[u] /\ subsidy'.cache[u].tag = "Some") =>
          \E t \in Tasks :
             /\ SubsidyAnswered(t)
             /\ subsidy'.task[t].val.user = u
             /\ ReadErrors(subsidy'.task[t].val.answers.val) = {}
             /\ subsidy'.task[t].val.result.val.tag = "Ok"
             /\ subsidy'.cache[u] =
                   SomeOpt([factor |-> subsidy'.task[t].val.result.val.val,
                            at |-> subsidy.now])

\* C38: kyo_subsidy_factor stores the factor of a user only after a
\* successful lookup.  A call for a user with a live entry is answered with
\* the cached factor without a chain read and without a change of the cache;
\* a call whose balance read failed returns the error of the read and leaves
\* the cache as it was; an entry appears in the cache only in the step in
\* which a call for that user read both balances and got its factor.
C38_CacheOnlyAfterSuccess ==
    [][(subsidy # NotYet /\ subsidy' # NotYet) =>
          /\ HitAnsweredFromCache
          /\ FailedReadReturnsError
          /\ StoredOnlyAfterSuccess]_vars

\* Task 1 got the error of a failed read for user 1, who has no entry, and
\* task 2 was answered from the entry that user 2 got half an hour ago.
C38_Witness ==
    /\ subsidy # NotYet
    /\ subsidy.now = TickSeconds
    /\ subsidy.cache[1] = NoneOpt
    /\ subsidy.cache[2] = SomeOpt([factor |-> "0.5", at |-> 0])
    /\ subsidy.task[1] # NoneOpt /\ subsidy.task[2] # NoneOpt
    /\ subsidy.task[1].val.user = 1
    /\ subsidy.task[1].val.answers = SomeOpt(<<Ok(U256From(1)), Error("rpc")>>)
    /\ subsidy.task[1].val.result = SomeOpt(Error("rpc"))
    /\ subsidy.task[2].val.user = 2
    /\ subsidy.task[2].val.answers = NoneOpt
    /\ subsidy.task[2].val.result = SomeOpt(Ok("0.5"))

=============================================================================
